---- MODULE Spec2Model ----
(***************************************************************************)
(* Model of the shared-memory NA plugin (src/src/na/na_sm.c).              *)
(*                                                                         *)
(* These specifications share this module:                                 *)
(*   SpecBuf  the copy-buffer bitmask, na_sm_buf_reserve / _release, run   *)
(*            by concurrent threads one atomic access at a time;           *)
(*   SpecQP   the 256-bit queue-pair bitmask, na_sm_queue_pair_reserve /   *)
(*            _release, likewise;                                          *)
(*   Spec     one endpoint: its Ops, op queues, addresses, progress,       *)
(*            cancel and close, with the peer process as environment;      *)
(*   SpecHdr  the message header a send packs and pushes onto a ring, and  *)
(*            what na_sm_msg_queue_pop makes of it;                        *)
(*   SpecAddr concurrent look-ups and resolutions of the peer's address,   *)
(*            and the release of the address at endpoint close;            *)
(*   SpecSend sends to one peer, the retry drain and the peer;             *)
(*   SpecProg the loop of na_sm_progress;                                  *)
(*   SpecExp  expected messages meeting the posted expected receives;      *)
(*   SpecRma  na_sm_put and na_sm_get.                                     *)
(* A bitmask is modelled as the set of its bit positions that are 1.       *)
(***************************************************************************)
EXTENDS Integers, Sequences, FiniteSets, TLC

\* Program constants.
NA_SM_NUM_BUFS == 64
NA_SM_MAX_PEERS == 256
QP_WORD_BITS == 64
QP_WORDS == 4

\* Bounds of the model.
NumThreads == 2

Threads == 1..NumThreads

VARIABLES
    copy_available, \* SpecBuf: na_sm_copy_buf.available.val, the set of 1 bits
    bthr,           \* SpecBuf: per thread, the locals of na_sm_buf_reserve
    qp_available,   \* SpecQP: na_sm_region.available.val[0..3], sets of 1 bits
    qthr,           \* SpecQP: per thread, the locals of na_sm_queue_pair_reserve
    op,                   \* Spec: the na_sm_op_id objects
    unexpected_op_queue,  \* Spec: na_sm_endpoint.unexpected_op_queue
    expected_op_queue,    \* Spec: na_sm_endpoint.expected_op_queue
    retry_op_queue,       \* Spec: na_sm_endpoint.retry_op_queue
    unexpected_msg_queue, \* Spec: na_sm_endpoint.unexpected_msg_queue
    completion_queue,     \* Spec: the context's completion queue
    addr,                 \* Spec: the na_sm_addr objects
    addr_map,             \* Spec: na_sm_endpoint.addr_map, key -> address
    poll_addr_list,       \* Spec: na_sm_endpoint.poll_addr_list
    handles,              \* Spec: na_addr_t handles the caller holds
    region,               \* Spec: the two shared regions, own and peer
    prog,                 \* Spec: the thread inside na_sm_progress
    canc,                 \* Spec: the thread inside na_sm_cancel
    endpoint,             \* Spec: endpoint state and last close result
    fault,                \* Spec: set when freed memory is accessed
    thr                   \* SpecHdr, SpecAddr, SpecProg, SpecRma: the locals
                          \* of the threads

bufVars == <<copy_available, bthr>>
qpVars == <<qp_available, qthr>>
opVars == <<op, unexpected_op_queue, expected_op_queue, retry_op_queue,
            unexpected_msg_queue, completion_queue>>
addrVars == <<addr, addr_map, poll_addr_list, handles>>
epVars == <<opVars, addrVars, region, prog, canc, endpoint, fault>>
smallVars == <<bufVars, qpVars, thr>>
vars == <<smallVars, epVars>>

AllBufs == 0..(NA_SM_NUM_BUFS - 1)
WordBits == 0..(QP_WORD_BITS - 1)
WordIdx == 0..(QP_WORDS - 1)

(***************************************************************************)
(* SpecBuf: na_sm_buf_reserve() and na_sm_buf_release().                   *)
(* bthr[t] = [pc, i, available, held, ret]: i is the loop index (bits is   *)
(* 1LL << i), available the value last read, held the indices the thread   *)
(* reserved and has not released.  A thread holds one buffer at a time;    *)
(* locals are cleared when the function returns (they are dead then).      *)
(***************************************************************************)

\* The bitmask values a region has when the threads start: freshly created
\* (all ones, na_sm_region_open), or with all but a few buffers held by
\* other processes mapping the same region.
BufInitAvailable == {AllBufs, {0, 1}, {NA_SM_NUM_BUFS - 1}}

BufInit ==
    /\ copy_available \in BufInitAvailable
    /\ bthr = [t \in Threads |->
                 [pc |-> "idle", i |-> 0, available |-> {}, held |-> {},
                  ret |-> "NONE"]]

\* Entry of na_sm_buf_reserve: bits = 1, i = 0.
na_sm_buf_reserve_call(t) ==
    /\ bthr[t].pc = "idle"
    /\ bthr[t].held = {}
    /\ bthr' = [bthr EXCEPT ![t].pc = "get", ![t].i = 0, ![t].ret = "NONE"]
    /\ UNCHANGED copy_available

\* One pass of the loop head: the atomic read of the bitmask and the two
\* tests on the value read.
na_sm_buf_reserve_get(t) ==
    /\ bthr[t].pc = "get"
    /\ IF copy_available = {}
       THEN \* nothing available: break, return NA_AGAIN
            bthr' = [bthr EXCEPT ![t].pc = "idle", ![t].i = 0,
                                 ![t].ret = "NA_AGAIN"]
       ELSE IF bthr[t].i \notin copy_available
            THEN \* already reserved: i++, bits <<= 1, continue
                 IF bthr[t].i + 1 < NA_SM_NUM_BUFS
                 THEN bthr' = [bthr EXCEPT ![t].i = @ + 1]
                 ELSE bthr' = [bthr EXCEPT ![t].pc = "idle", ![t].i = 0,
                                           ![t].ret = "NA_AGAIN"]
            ELSE bthr' = [bthr EXCEPT ![t].pc = "cas",
                                      ![t].available = copy_available]
    /\ UNCHANGED copy_available

\* A plausible slip: clearing the bit with an atomic AND instead of the
\* compare-and-swap on the value read.
na_sm_buf_reserve_cas_and(t) ==
    /\ bthr[t].pc = "cas"
    /\ copy_available' = copy_available \ {bthr[t].i}
    /\ bthr' = [bthr EXCEPT ![t].pc = "idle", ![t].held = @ \cup {bthr[t].i},
                            ![t].i = 0, ![t].available = {},
                            ![t].ret = "NA_SUCCESS"]

\* hg_atomic_cas64(&available.val, available, available & ~bits): on success
\* return the index, on failure go round the loop again (i < NA_SM_NUM_BUFS).
na_sm_buf_reserve_cas(t) ==
    /\ bthr[t].pc = "cas"
    /\ IF copy_available = bthr[t].available
       THEN /\ copy_available' = bthr[t].available \ {bthr[t].i}
            /\ bthr' = [bthr EXCEPT ![t].pc = "idle",
                                    ![t].held = @ \cup {bthr[t].i},
                                    ![t].i = 0, ![t].available = {},
                                    ![t].ret = "NA_SUCCESS"]
       ELSE /\ bthr' = [bthr EXCEPT ![t].pc = "get", ![t].available = {}]
            /\ UNCHANGED copy_available

\* hg_atomic_or64(&available.val, 1LL << index), by the holder of index.
na_sm_buf_release(t, index) ==
    /\ bthr[t].pc = "idle"
    /\ index \in bthr[t].held
    /\ copy_available' = copy_available \cup {index}
    /\ bthr' = [bthr EXCEPT ![t].held = @ \ {index}]

BufParked ==
    /\ copy_available = AllBufs
    /\ bthr = [t \in Threads |-> [pc |-> "idle"]]

\* C1: whatever the interleaving of na_sm_buf_reserve and na_sm_buf_release
\* steps, an index is held by at most one thread at a time, and an index that
\* is held is not marked available (so no reserve can return it again before
\* its holder releases it).
C1_BufExclusive ==
    /\ \A t1, t2 \in Threads :
           t1 # t2 => bthr[t1].held \cap bthr[t2].held = {}
    /\ \A t \in Threads : bthr[t].held \cap copy_available = {}

\* Two threads hold buffers at once, both from successful reservations.
C1_Witness ==
    \E t1, t2 \in Threads :
        /\ t1 # t2
        /\ bthr[t1].held # {}
        /\ bthr[t2].held # {}
        /\ bthr[t1].ret = "NA_SUCCESS"
        /\ bthr[t2].ret = "NA_SUCCESS"

(***************************************************************************)
(* SpecQP: na_sm_queue_pair_reserve() and na_sm_queue_pair_release().      *)
(* qthr[t] = [pc, j, i, available, held, ret]: j is the word, i the bit.   *)
(***************************************************************************)

AllPairs == 0..(NA_SM_MAX_PEERS - 1)

\* Bitmask values at the start: a fresh region, and a region where other
\* peers hold all pairs but two of the second word.
QPInitAvailable ==
    { [j \in WordIdx |-> WordBits],
      [j \in WordIdx |-> IF j = 1 THEN {0, 1} ELSE {}],
      [j \in WordIdx |-> IF j = QP_WORDS - 1 THEN {QP_WORD_BITS - 1} ELSE {}] }

QPInit ==
    /\ qp_available \in QPInitAvailable
    /\ qthr = [t \in Threads |->
                 [pc |-> "idle", j |-> 0, i |-> 0, available |-> {},
                  held |-> {}, ret |-> "NONE"]]

QPParked ==
    /\ qp_available = [j \in WordIdx |-> WordBits]
    /\ qthr = [t \in Threads |-> [pc |-> "idle"]]

\* Entry of na_sm_queue_pair_reserve: j = 0, then the outer loop body sets
\* bits = 1, i = 0.
na_sm_queue_pair_reserve_call(t) ==
    /\ qthr[t].pc = "idle"
    /\ qthr[t].held = {}
    /\ qthr' = [qthr EXCEPT ![t].pc = "get", ![t].j = 0, ![t].i = 0,
                            ![t].ret = "NONE"]
    /\ UNCHANGED qp_available

\* One pass of the inner loop head: the atomic read of word j and the tests.
na_sm_queue_pair_reserve_get(t) ==
    LET j == qthr[t].j
        i == qthr[t].i
    IN
    /\ qthr[t].pc = "get"
    /\ IF qp_available[j] = {}
       THEN \* j++, break; the outer loop goes on while j < 4, with i = 0
            IF j + 1 < QP_WORDS
            THEN qthr' = [qthr EXCEPT ![t].j = j + 1, ![t].i = 0]
            ELSE qthr' = [qthr EXCEPT ![t].pc = "idle", ![t].j = 0, ![t].i = 0,
                                      ![t].ret = "NA_AGAIN"]
       ELSE IF i \notin qp_available[j]
            THEN \* already reserved: i++, continue; at i = 64 the inner loop
                 \* ends and the outer loop body restarts on the same word
                 IF i + 1 < QP_WORD_BITS
                 THEN qthr' = [qthr EXCEPT ![t].i = i + 1]
                 ELSE qthr' = [qthr EXCEPT ![t].i = 0]
            ELSE qthr' = [qthr EXCEPT ![t].pc = "cas",
                                      ![t].available = qp_available[j]]
    /\ UNCHANGED qp_available

\* The index handed back on a successful CAS: i + (j * 64), as na_uint8_t.
QPIndex(i, j) == (i + (j * QP_WORD_BITS)) % 256

\* A plausible slip: clearing the bit with an atomic AND instead of the
\* compare-and-swap on the value read.
na_sm_queue_pair_reserve_cas_and(t) ==
    LET j == qthr[t].j
        i == qthr[t].i
    IN
    /\ qthr[t].pc = "cas"
    /\ qp_available' = [qp_available EXCEPT ![j] = @ \ {i}]
    /\ qthr' = [qthr EXCEPT ![t].pc = "idle",
                            ![t].held = @ \cup {QPIndex(i, j)},
                            ![t].j = 0, ![t].i = 0, ![t].available = {},
                            ![t].ret = "NA_SUCCESS"]

\* hg_atomic_cas64(&available.val[j], available, available & ~bits).
na_sm_queue_pair_reserve_cas(t) ==
    LET j == qthr[t].j
        i == qthr[t].i
    IN
    /\ qthr[t].pc = "cas"
    /\ IF qp_available[j] = qthr[t].available
       THEN /\ qp_available' = [qp_available EXCEPT ![j] = qthr[t].available \ {i}]
            /\ qthr' = [qthr EXCEPT ![t].pc = "idle",
                                    ![t].held = @ \cup {QPIndex(i, j)},
                                    ![t].j = 0, ![t].i = 0, ![t].available = {},
                                    ![t].ret = "NA_SUCCESS"]
       ELSE /\ qthr' = [qthr EXCEPT ![t].pc = "get", ![t].available = {}]
            /\ UNCHANGED qp_available

\* hg_atomic_or64(&available.val[index / 64], 1LL << index % 64).
na_sm_queue_pair_release(t, index) ==
    /\ qthr[t].pc = "idle"
    /\ index \in qthr[t].held
    /\ qp_available' = [qp_available EXCEPT
                           ![index \div QP_WORD_BITS] = @ \cup {index % QP_WORD_BITS}]
    /\ qthr' = [qthr EXCEPT ![t].held = @ \ {index}]

\* The pair indices whose bit is 1 in the four words.
QPAvailableIdx ==
    {p \in AllPairs : (p % QP_WORD_BITS) \in qp_available[p \div QP_WORD_BITS]}

\* C2: no queue-pair index is held by two reservations at once, and a held
\* index is not marked available in the 256-bit bitmask.
C2_QPExclusive ==
    /\ \A t1, t2 \in Threads :
           t1 # t2 => qthr[t1].held \cap qthr[t2].held = {}
    /\ \A t \in Threads : qthr[t].held \cap QPAvailableIdx = {}

\* Two threads hold pairs at once, one of them beyond the first word.
C2_Witness ==
    \E t1, t2 \in Threads :
        /\ t1 # t2
        /\ qthr[t1].held # {}
        /\ \E p \in qthr[t2].held : p >= QP_WORD_BITS

(***************************************************************************)
(* Spec: one listening endpoint in non-blocking mode (no poll set).        *)
(*                                                                         *)
(* Addresses: "lk" is the address na_sm_addr_lookup creates for the peer   *)
(* process (its region is "peer"); "ux" is the unexpected address that     *)
(* na_sm_process_cmd creates when the peer connects to this endpoint (its  *)
(* region is "own", the endpoint's own region).  One queue pair is in use  *)
(* in each region; region[r].tx_queue and .rx_queue are its two rings.     *)
(* In Spec the bitmasks are held as the set of bit positions that are 0    *)
(* (reserved); reservation is one atomic step that takes the lowest free   *)
(* index, as the scan of SpecBuf / SpecQP does when undisturbed.           *)
(* The caller's API calls are atomic steps; na_sm_progress and             *)
(* na_sm_cancel run on threads of their own and are split where the code   *)
(* drops a lock or leaves an atomic operation.                             *)
(* Freed memory: a destroyed address keeps state "freed"; a step of the    *)
(* code that reads or writes it sets fault and the run stops there.        *)
(***************************************************************************)

\* Bounds of the endpoint model.
NumOps == 2
MaxHandles == 1
MaxFree == 1
MaxHeld == 1
MaxPosts == 2

Ops == 1..NumOps
NULL == "NULL"
AddrIds == {"lk", "ux"}
Regions == {"own", "peer"}
PeerPid == "P"

\* Op ID status bits.
NA_SM_OP_COMPLETED == "NA_SM_OP_COMPLETED"
NA_SM_OP_CANCELED == "NA_SM_OP_CANCELED"
NA_SM_OP_QUEUED == "NA_SM_OP_QUEUED"

\* Address status bits.
NA_SM_ADDR_RESERVED == "NA_SM_ADDR_RESERVED"
NA_SM_ADDR_CMD_PUSHED == "NA_SM_ADDR_CMD_PUSHED"
NA_SM_ADDR_RESOLVED == "NA_SM_ADDR_RESOLVED"

\* Message values used by the caller and by the peer.
MsgTag == 7
MsgSize == 64
RecvBufSize == 4096

\* na_sm_op_create: zeroed, completed by default.  Three fields are kept for
\* the checks and reset by every post: ncomplete counts the completions of
\* the current post, hist is the cancel case (see na_sm_cancel_call), parked
\* tells that the post put the op on the retry queue.
NewOp ==
    [type |-> "NONE", status |-> {NA_SM_OP_COMPLETED}, na_sm_addr |-> NULL,
     tag |-> 0, buf_size |-> 0, actual_buf_size |-> 0,
     cb |-> [ret |-> "NONE", actual_buf_size |-> 0, source |-> NULL, tag |-> 0],
     ncomplete |-> 0, hist |-> "none", parked |-> FALSE]

\* An address slot that is not allocated.  A freed slot has the same fields
\* with state "freed".  tx_queue stands for the two pointers tx_queue and
\* rx_queue, which are set together: the region and the index of the queue
\* pair they point into, NoQueue for NULL.  tx_notify and rx_notify are the
\* notification descriptors, -1 for none.
NoQueue == [region |-> NULL, idx |-> 0]

NoAddr ==
    [state |-> "unalloc", unexpected |-> FALSE, ref_count |-> 0, status |-> {},
     shared_region |-> NULL, queue_pair_idx |-> 0, pid |-> NULL,
     tx_queue |-> NoQueue, tx_notify |-> -1, rx_notify |-> -1]

\* na_sm_addr_create(pid, id, unexpected): ref_count 1, status 0.
na_sm_addr_create(pid, unexpected) ==
    [state |-> "live", unexpected |-> unexpected, ref_count |-> 1,
     status |-> {}, shared_region |-> NULL, queue_pair_idx |-> 0, pid |-> pid,
     tx_queue |-> NoQueue, tx_notify |-> -1, rx_notify |-> -1]

\* Lowest index of 0..(n - 1) that is not in reserved, or -1.
LowestFree(reserved, n) ==
    IF \E i \in 0..(n - 1) : i \notin reserved
    THEN CHOOSE i \in 0..(n - 1) :
             i \notin reserved /\ \A k \in 0..(i - 1) : k \in reserved
    ELSE -1

\* The regions when the run starts.  Pair 0 of a region is the one its owner
\* reserved for itself at na_sm_endpoint_open; other processes hold all the
\* copy buffers but the first MaxFree.  exists tells that the shared-memory
\* object of the region can still be opened (its owner has not removed it).
RegionInit(mapped) ==
    [copy_reserved |-> AllBufs \ (0..(MaxFree - 1)),
     pair_reserved |-> {0},
     tx_queue |-> <<>>, rx_queue |-> <<>>, cmd_queue |-> <<>>,
     mapped |-> mapped, exists |-> TRUE]

ProgIdle == [pc |-> "idle", cur |-> NULL, op |-> 0, hdr |-> NULL, buf_idx |-> 0]

CancIdle == [pc |-> "idle", op |-> 0, queue |-> NULL]

EpInit ==
    /\ op = [o \in Ops |-> NewOp]
    /\ unexpected_op_queue = <<>>
    /\ expected_op_queue = <<>>
    /\ retry_op_queue = <<>>
    /\ unexpected_msg_queue = <<>>
    /\ completion_queue = <<>>
    /\ addr = [a \in AddrIds |-> NoAddr]
    /\ addr_map = NULL
    /\ poll_addr_list = <<>>
    /\ handles = [a \in AddrIds |-> 0]
    /\ region = [r \in Regions |-> RegionInit(r = "own")]
    /\ prog = ProgIdle
    /\ canc = CancIdle
    /\ endpoint = [state |-> "open", ret |-> "NONE", peer |-> "none",
                   peer_pair |-> 0, posts |-> 0]
    /\ fault = "none"

EpParked ==
    /\ op = <<>>
    /\ unexpected_op_queue = <<>>
    /\ expected_op_queue = <<>>
    /\ retry_op_queue = <<>>
    /\ unexpected_msg_queue = <<>>
    /\ completion_queue = <<>>
    /\ addr = <<>>
    /\ addr_map = NULL
    /\ poll_addr_list = <<>>
    /\ handles = <<>>
    /\ region = <<>>
    /\ prog = ProgIdle
    /\ canc = CancIdle
    /\ endpoint = [state |-> "parked"]
    /\ fault = "none"

ThrParked == thr = <<>>

\* Every step of the endpoint is taken while it is open and no freed memory
\* has been touched; na_sm_endpoint_close is the last call of a run, whatever
\* it returns.
Running == endpoint.state = "open" /\ endpoint.ret = "NONE" /\ fault = "none"

(***************************************************************************)
(* Helpers.  They are functions on h = [addr, region, list, op, cq], the    *)
(* values of addr, region, poll_addr_list, op and completion_queue, so     *)
(* that a caller can apply several of them in one step.                    *)
(***************************************************************************)

Heap ==
    [addr |-> addr, region |-> region, list |-> poll_addr_list, op |-> op,
     cq |-> completion_queue]

\* HG_LIST_REMOVE(na_sm_addr, entry).
ListRemove(list, a) == SelectSeq(list, LAMBDA x : x # a)

\* Command header sent to the peer's command queue.
CmdHdr(type, pair_idx) == [type |-> type, pid |-> "self", pair_idx |-> pair_idx]

\* na_sm_addr_release (no poll set): an unexpected address gives its queue
\* pair back to the own region; a looked-up address pushes NA_SM_RELEASED to
\* the peer's command queue and closes (unmaps) the peer region.
na_sm_addr_release(h, a) ==
    LET A == h.addr[a]
        r == A.shared_region
    IN  IF A.unexpected
        THEN [h EXCEPT !.region[r].pair_reserved = @ \ {A.queue_pair_idx}]
        ELSE [h EXCEPT !.region[r].cmd_queue =
                           Append(@, CmdHdr("NA_SM_RELEASED", A.queue_pair_idx)),
                       !.region[r].mapped = FALSE]

\* na_sm_addr_destroy: release if a region is attached, then free().  The
\* freed slot keeps the reference count it was freed with.
na_sm_addr_destroy(h, a) ==
    LET h1 == IF h.addr[a].shared_region # NULL
              THEN na_sm_addr_release(h, a)
              ELSE h
    IN  [h1 EXCEPT !.addr[a] =
            [NoAddr EXCEPT !.state = "freed", !.ref_count = h.addr[a].ref_count]]

\* na_sm_cmd_queue_push fails on a full ring; the ring has
\* NA_SM_MAX_PEERS * 2 slots (na_sm_cmd_queue_init), one of which stays
\* unused.
CmdQueueFull(q) == Len(q) >= (NA_SM_MAX_PEERS * 2) - 1

\* What na_sm_addr_resolve (no poll set) returns on address a: NA_NODEV when
\* the peer's region cannot be opened, NA_AGAIN when the region has no free
\* queue pair or its command queue is full.
na_sm_addr_resolve_ret(h, a) ==
    LET A == h.addr[a]
        r == "peer"
    IN  IF A.shared_region = NULL /\ ~h.region[r].exists
        THEN "NA_NODEV"
        ELSE IF /\ NA_SM_ADDR_RESERVED \notin A.status
                /\ LowestFree(h.region[r].pair_reserved, NA_SM_MAX_PEERS) = -1
        THEN "NA_AGAIN"
        ELSE IF /\ NA_SM_ADDR_CMD_PUSHED \notin A.status
                /\ CmdQueueFull(h.region[r].cmd_queue)
        THEN "NA_AGAIN"
        ELSE "NA_SUCCESS"

\* na_sm_addr_resolve (no poll set): open the region, reserve a pair, push
\* NA_SM_RESERVED, mark the address resolved and put it at the head of the
\* poll list.  On an error the pair reserved so far is released, RESERVED is
\* cleared, the region is closed and shared_region set to NULL; tx_queue and
\* rx_queue keep pointing into the pair.
na_sm_addr_resolve(h, a) ==
    LET A == h.addr[a]
        r == "peer"
        ret == na_sm_addr_resolve_ret(h, a)
        reserve == NA_SM_ADDR_RESERVED \notin A.status
        push == NA_SM_ADDR_CMD_PUSHED \notin A.status
        idx == IF reserve
               THEN LowestFree(h.region[r].pair_reserved, NA_SM_MAX_PEERS)
               ELSE A.queue_pair_idx
    IN  IF ret = "NA_NODEV"
        THEN h
        ELSE IF ret = "NA_AGAIN"
        THEN [h EXCEPT
                 !.region[r].mapped = FALSE,
                 !.region[r].pair_reserved =
                     IF idx # -1 THEN @ \ {idx} ELSE @,
                 !.addr[a].shared_region = NULL,
                 !.addr[a].queue_pair_idx = IF idx # -1 THEN idx ELSE @,
                 !.addr[a].tx_queue =
                     IF reserve /\ idx # -1
                     THEN [region |-> r, idx |-> idx] ELSE @,
                 !.addr[a].status = @ \ {NA_SM_ADDR_RESERVED}]
        ELSE [h EXCEPT
            !.region[r].mapped = TRUE,
            !.region[r].pair_reserved = @ \cup {idx},
            !.region[r].cmd_queue =
                IF push THEN Append(@, CmdHdr("NA_SM_RESERVED", idx)) ELSE @,
            !.addr[a].shared_region = r,
            !.addr[a].queue_pair_idx = idx,
            !.addr[a].tx_queue = IF reserve THEN [region |-> r, idx |-> idx] ELSE @,
            !.addr[a].status = @ \cup {NA_SM_ADDR_RESERVED,
                                       NA_SM_ADDR_CMD_PUSHED,
                                       NA_SM_ADDR_RESOLVED},
            !.list = <<a>> \o @]

\* The heap written back to the variables.
SetHeap(h) ==
    /\ addr' = h.addr
    /\ region' = h.region
    /\ poll_addr_list' = h.list
    /\ op' = h.op
    /\ completion_queue' = h.cq

\* A plausible slip: the region is released on every na_sm_addr_free, not
\* only on the last one.
AddrFree_release_early(h, a) ==
    LET h1 == [h EXCEPT !.addr[a].ref_count = @ - 1]
    IN  IF h1.addr[a].ref_count # 0
        THEN IF h1.addr[a].shared_region # NULL
             THEN na_sm_addr_release(h1, a)
             ELSE h1
        ELSE na_sm_addr_destroy([h1 EXCEPT !.list = ListRemove(@, a)], a)

\* hg_atomic_decr32(&ref_count) and, at zero, the removal from the poll list
\* and na_sm_addr_destroy: the body of na_sm_addr_free after its NULL test.
AddrFree(h, a) ==
    LET h1 == [h EXCEPT !.addr[a].ref_count = @ - 1]
    IN  IF h1.addr[a].ref_count # 0
        THEN h1
        ELSE na_sm_addr_destroy([h1 EXCEPT !.list = ListRemove(@, a)], a)

(***************************************************************************)
(* The caller: address calls.                                              *)
(***************************************************************************)

\* na_sm_addr_lookup(name of the peer): find the address in the map or insert
\* a new one, then increment its reference count and hand out a handle.
na_sm_addr_lookup ==
    /\ Running
    /\ handles["lk"] < MaxHandles
    /\ IF addr_map = NULL
       THEN /\ addr' = [addr EXCEPT !["lk"] =
                           [na_sm_addr_create(PeerPid, FALSE) EXCEPT !.ref_count = 2]]
            /\ addr_map' = "lk"
            /\ handles' = [handles EXCEPT !["lk"] = @ + 1]
            /\ UNCHANGED fault
       ELSE IF addr[addr_map].state = "live"
            THEN /\ addr' = [addr EXCEPT ![addr_map].ref_count = @ + 1]
                 /\ handles' = [handles EXCEPT ![addr_map] = @ + 1]
                 /\ UNCHANGED <<addr_map, fault>>
            ELSE /\ fault' = "use_after_free"
                 /\ UNCHANGED <<addr, addr_map, handles>>
    /\ UNCHANGED <<opVars, poll_addr_list, region, prog, canc, endpoint>>

\* A step that touches memory it must not: the run stops here.
FaultAs(kind) ==
    /\ fault' = kind
    /\ UNCHANGED <<opVars, addrVars, region, prog, canc, endpoint>>

\* A step that reads or writes a freed address.
Fault == FaultAs("use_after_free")

\* The op queues and the held records, left as they are.
queueVars ==
    <<unexpected_op_queue, expected_op_queue, retry_op_queue,
      unexpected_msg_queue>>

\* na_sm_addr_free(addr) on a handle the caller holds.
na_sm_addr_free(a) ==
    /\ Running
    /\ handles[a] > 0
    /\ IF addr[a].state = "live"
       THEN /\ handles' = [handles EXCEPT ![a] = @ - 1]
            /\ SetHeap(AddrFree(Heap, a))
            /\ UNCHANGED <<queueVars, addr_map, prog, canc, endpoint, fault>>
       ELSE Fault

(***************************************************************************)
(* Completion and the message rings.                                       *)
(***************************************************************************)

\* The ring of the address's pair that this endpoint sends on / receives
\* from: na_sm_addr.tx_queue and .rx_queue.  na_sm_process_cmd inverts the
\* two for an unexpected address.
TxRing(A) == IF A.unexpected THEN "rx_queue" ELSE "tx_queue"

RxRing(A) == IF A.unexpected THEN "tx_queue" ELSE "rx_queue"

MsgHdr(type, buf_idx, buf_size, tag) ==
    [type |-> type, buf_idx |-> buf_idx, buf_size |-> buf_size, tag |-> tag]

\* hg_atomic_queue_push fails on a full ring.  The ring has NA_SM_NUM_BUFS
\* slots and its cursors are kept modulo the slot count (prod_mask is
\* count - 1, na_sm_msg_queue_init), equal cursors meaning empty: one slot
\* stays unused and the ring is full with NA_SM_NUM_BUFS - 1 headers.
MsgQueueFull(q) == Len(q) >= NA_SM_NUM_BUFS - 1

\* A plausible slip: the cancel test of na_sm_complete left out.
na_sm_complete_ret_success(status) == "NA_SUCCESS"

\* The callback result na_sm_complete chooses from the status it read.
na_sm_complete_ret(status) ==
    IF NA_SM_OP_CANCELED \in status THEN "NA_CANCELED" ELSE "NA_SUCCESS"

\* na_sm_complete takes a reference for the caller on a successful
\* unexpected receive.
CompleteTakesRef(O) ==
    /\ O.type = "NA_CB_RECV_UNEXPECTED"
    /\ na_sm_complete_ret(O.status) = "NA_SUCCESS"

\* na_sm_complete: set COMPLETED, choose the result, fill the callback info,
\* add the op to the completion queue.
na_sm_complete(h, o) ==
    LET O == h.op[o]
        ret == na_sm_complete_ret(O.status)
        cb == IF CompleteTakesRef(O)
              THEN [ret |-> ret, actual_buf_size |-> O.actual_buf_size,
                    source |-> O.na_sm_addr, tag |-> O.tag]
              ELSE [ret |-> ret, actual_buf_size |-> 0, source |-> NULL,
                    tag |-> 0]
    IN  [h EXCEPT
            !.op[o].status = @ \cup {NA_SM_OP_COMPLETED},
            !.op[o].cb = cb,
            !.op[o].ncomplete = @ + 1,
            !.addr = IF CompleteTakesRef(O)
                     THEN [@ EXCEPT ![O.na_sm_addr].ref_count = @ + 1]
                     ELSE @,
            !.cq = Append(@, o)]

\* An op whose last use has completed and whose callback has run.
OpFree(o) ==
    /\ NA_SM_OP_COMPLETED \in op[o].status
    /\ \A k \in 1..Len(completion_queue) : completion_queue[k] # o

\* The caller posts with a free op, the lowest one it has, and makes at most
\* MaxPosts posts in a run.
CanPost(o) ==
    /\ endpoint.posts < MaxPosts
    /\ OpFree(o)
    /\ \A p \in Ops : p < o => ~OpFree(p)

(***************************************************************************)
(* The caller: posting operations.                                         *)
(***************************************************************************)

\* One more post has been made; a run makes at most MaxPosts of them.
Posted == endpoint' = [endpoint EXCEPT !.posts = @ + 1]

\* A plausible slip: the status is not reset by the post.
PostedOp_status_kept(type, a, tag, buf_size, actual) ==
    [NewOp EXCEPT !.type = type, !.na_sm_addr = a, !.tag = tag,
                  !.buf_size = buf_size, !.actual_buf_size = actual]

\* The fields a post writes before it looks at queues or buffers; the status
\* is set to 0.
PostedOp(type, a, tag, buf_size, actual) ==
    [NewOp EXCEPT !.type = type, !.status = {}, !.na_sm_addr = a, !.tag = tag,
                  !.buf_size = buf_size, !.actual_buf_size = actual]

\* na_sm_msg_send_unexpected / na_sm_msg_send_expected to address a: take a
\* reference, resolve the address if needed, reserve a copy buffer (none:
\* na_sm_op_retry and return success), push the header, complete.
na_sm_msg_send(o, a, type) ==
    /\ Running
    /\ CanPost(o)
    /\ handles[a] > 0
    /\ IF addr[a].state # "live"
       THEN Fault
       ELSE LET h0 == [Heap EXCEPT
                          !.addr[a].ref_count = @ + 1,
                          !.op[o] = PostedOp(type, a, MsgTag, MsgSize, MsgSize)]
                h1 == IF NA_SM_ADDR_RESOLVED \notin addr[a].status
                      THEN na_sm_addr_resolve(h0, a)
                      ELSE h0
                ret == IF NA_SM_ADDR_RESOLVED \notin addr[a].status
                       THEN na_sm_addr_resolve_ret(h0, a)
                       ELSE "NA_SUCCESS"
                r == h1.addr[a].shared_region
                ring == TxRing(h1.addr[a])
                buf_idx == LowestFree(h1.region[r].copy_reserved, NA_SM_NUM_BUFS)
            IN  /\ IF ret \notin {"NA_SUCCESS", "NA_AGAIN"}
                   THEN \* error: the reference is given back
                        /\ SetHeap([h1 EXCEPT
                               !.addr[a].ref_count = @ - 1,
                               !.op[o].status = {NA_SM_OP_COMPLETED}])
                        /\ UNCHANGED retry_op_queue
                   ELSE IF ret = "NA_AGAIN" \/ buf_idx = -1
                   THEN \* na_sm_op_retry
                        /\ SetHeap([h1 EXCEPT !.op[o].status = @ \cup {NA_SM_OP_QUEUED},
                                              !.op[o].parked = TRUE])
                        /\ retry_op_queue' = Append(retry_op_queue, o)
                   ELSE IF MsgQueueFull(h1.region[r][ring])
                   THEN \* error: the buffer and the reference are given back
                        /\ SetHeap([h1 EXCEPT
                               !.addr[a].ref_count = @ - 1,
                               !.op[o].status = {NA_SM_OP_COMPLETED}])
                        /\ UNCHANGED retry_op_queue
                   ELSE /\ SetHeap(na_sm_complete(
                               [h1 EXCEPT
                                   !.region[r].copy_reserved = @ \cup {buf_idx},
                                   !.region[r][ring] =
                                       Append(@, MsgHdr(type, buf_idx, MsgSize,
                                                        MsgTag))], o))
                        /\ UNCHANGED retry_op_queue
                /\ Posted
                /\ UNCHANGED <<unexpected_op_queue, expected_op_queue,
                               unexpected_msg_queue, addr_map, handles, prog,
                               canc, fault>>

\* na_sm_msg_recv_unexpected: take the first held record if there is one and
\* complete at once, else queue the op on the unexpected op queue.
na_sm_msg_recv_unexpected(o) ==
    /\ Running
    /\ CanPost(o)
    /\ LET h0 == [Heap EXCEPT
                     !.op[o] = PostedOp("NA_CB_RECV_UNEXPECTED", NULL, 0,
                                        RecvBufSize, 0)]
       IN  IF unexpected_msg_queue # <<>>
           THEN LET info == Head(unexpected_msg_queue)
                    a == info.na_sm_addr
                    h1 == [h0 EXCEPT
                              !.op[o].na_sm_addr = a,
                              !.addr[a].ref_count = @ + 1,
                              !.op[o].actual_buf_size = info.buf_size,
                              !.op[o].tag = info.tag]
                IN  IF addr[a].state # "live"
                    THEN Fault
                    ELSE /\ SetHeap(na_sm_complete(h1, o))
                         /\ unexpected_msg_queue' = Tail(unexpected_msg_queue)
                         /\ Posted
                         /\ UNCHANGED <<unexpected_op_queue, expected_op_queue,
                                        retry_op_queue, addr_map, handles, prog,
                                        canc, fault>>
           ELSE /\ SetHeap([h0 EXCEPT !.op[o].status =
                                          @ \cup {NA_SM_OP_QUEUED}])
                /\ unexpected_op_queue' = Append(unexpected_op_queue, o)
                /\ Posted
                /\ UNCHANGED <<expected_op_queue, retry_op_queue,
                               unexpected_msg_queue, addr_map, handles, prog,
                               canc, fault>>

\* na_sm_msg_recv_expected from address a: take a reference and queue the op
\* on the expected op queue.
na_sm_msg_recv_expected(o, a) ==
    /\ Running
    /\ CanPost(o)
    /\ handles[a] > 0
    /\ IF addr[a].state # "live"
       THEN Fault
       ELSE /\ SetHeap([Heap EXCEPT
                   !.addr[a].ref_count = @ + 1,
                   !.op[o] = [PostedOp("NA_CB_RECV_EXPECTED", a, MsgTag,
                                       RecvBufSize, 0)
                                 EXCEPT !.status = @ \cup {NA_SM_OP_QUEUED}]])
            /\ expected_op_queue' = Append(expected_op_queue, o)
            /\ Posted
            /\ UNCHANGED <<unexpected_op_queue, retry_op_queue,
                           unexpected_msg_queue, addr_map, handles, prog, canc,
                           fault>>

\* NA_Trigger: take the first completion entry, run the callback, then the
\* plugin's release callback na_sm_release, which frees the op's address
\* reference.  A successful unexpected receive hands the caller a handle on
\* the source address.
NA_Trigger ==
    /\ Running
    /\ completion_queue # <<>>
    /\ LET o == Head(completion_queue)
           O == op[o]
           a == O.na_sm_addr
           src == O.cb.source
           h0 == [Heap EXCEPT !.cq = Tail(@), !.op[o].na_sm_addr = NULL]
       IN  /\ src # NULL => handles[src] < MaxHandles
           /\ IF a # NULL /\ addr[a].state # "live"
              THEN Fault
              ELSE /\ SetHeap(IF a # NULL THEN AddrFree(h0, a) ELSE h0)
                   /\ handles' = IF src # NULL
                                 THEN [handles EXCEPT ![src] = @ + 1]
                                 ELSE handles
                   /\ UNCHANGED <<queueVars, addr_map, prog, canc, endpoint,
                                  fault>>

(***************************************************************************)
(* The peer process (environment).  It runs the same plugin: as a client   *)
(* of this endpoint it reserves a queue pair in the own region, announces  *)
(* it with NA_SM_RESERVED, sends messages through copy buffers of the own  *)
(* region and says NA_SM_RELEASED when it lets the address go; as the      *)
(* receiver it pops what this endpoint sent and releases the copy buffer.  *)
(***************************************************************************)

\* The peer's na_sm_addr_resolve on this endpoint's region.
PeerConnect ==
    /\ Running
    /\ endpoint.peer = "none"
    /\ LET idx == LowestFree(region["own"].pair_reserved, NA_SM_MAX_PEERS)
       IN  /\ region' = [region EXCEPT
                  !["own"].pair_reserved = @ \cup {idx},
                  !["own"].cmd_queue =
                      Append(@, [type |-> "NA_SM_RESERVED", pid |-> PeerPid,
                                 pair_idx |-> idx])]
           /\ endpoint' = [endpoint EXCEPT !.peer = "connected",
                                           !.peer_pair = idx]
    /\ UNCHANGED <<opVars, addrVars, prog, canc, fault>>

\* The peer's na_sm_msg_send_unexpected / _expected to this endpoint.
PeerSend(type) ==
    /\ Running
    /\ endpoint.peer = "connected"
    /\ Len(unexpected_msg_queue) < MaxHeld
    /\ LET buf_idx == LowestFree(region["own"].copy_reserved, NA_SM_NUM_BUFS)
       IN  /\ buf_idx # -1
           /\ region' = [region EXCEPT
                  !["own"].copy_reserved = @ \cup {buf_idx},
                  !["own"].tx_queue =
                      Append(@, MsgHdr(type, buf_idx, MsgSize, MsgTag))]
    /\ UNCHANGED <<opVars, addrVars, prog, canc, endpoint, fault>>

\* The peer's na_sm_addr_release of its address for this endpoint.
PeerRelease ==
    /\ Running
    /\ endpoint.peer = "connected"
    /\ region' = [region EXCEPT
           !["own"].cmd_queue =
               Append(@, [type |-> "NA_SM_RELEASED", pid |-> PeerPid,
                          pair_idx |-> endpoint.peer_pair])]
    /\ endpoint' = [endpoint EXCEPT !.peer = "released"]
    /\ UNCHANGED <<opVars, addrVars, prog, canc, fault>>

\* The peer's progress on a ring this endpoint sends on: pop the header and
\* release its copy buffer.
PeerRecv(r, ring) ==
    /\ Running
    /\ region[r].exists
    /\ region[r][ring] # <<>>
    /\ region' = [region EXCEPT
           ![r][ring] = Tail(@),
           ![r].copy_reserved = @ \ {Head(region[r][ring]).buf_idx}]
    /\ UNCHANGED <<opVars, addrVars, prog, canc, endpoint, fault>>

(***************************************************************************)
(* na_sm_progress on its own thread: na_sm_poll (rx queues of the poll     *)
(* list, then the command queue), then na_sm_process_retries.              *)
(* prog = [pc, cur, op, hdr, buf_idx]: cur is poll_addr, op is na_sm_op_id.*)
(***************************************************************************)

\* The element after a in the poll list, NULL at the end: HG_LIST_NEXT.
ListNext(list, a) ==
    LET k == CHOOSE i \in 1..Len(list) : list[i] = a
    IN  IF k < Len(list) THEN list[k + 1] ELSE NULL

\* After poll_addr has been handled: the next address of the list, or, at
\* the end of the list, on to the command queue.
PollAdvance(p) ==
    LET next == ListNext(poll_addr_list, p.cur)
    IN  [ProgIdle EXCEPT !.pc = IF next = NULL THEN "cmd" ELSE "poll",
                         !.cur = next]

\* na_sm_progress is entered: na_sm_poll starts at the head of the list.
na_sm_progress_call ==
    /\ Running
    /\ prog.pc = "idle"
    /\ prog' = IF poll_addr_list = <<>>
               THEN [ProgIdle EXCEPT !.pc = "cmd"]
               ELSE [ProgIdle EXCEPT !.pc = "poll", !.cur = Head(poll_addr_list)]
    /\ UNCHANGED <<opVars, addrVars, region, canc, endpoint, fault>>

\* A plausible slip: the newest matching op is taken, not the oldest.
ExpectedMatch_newest(a, tag) ==
    LET hits == {k \in 1..Len(expected_op_queue) :
                    /\ op[expected_op_queue[k]].na_sm_addr = a
                    /\ op[expected_op_queue[k]].tag = tag}
    IN  IF hits = {} THEN 0
        ELSE expected_op_queue[CHOOSE k \in hits : \A j \in hits : k >= j]

\* The first op of the expected queue that matches address and tag.
ExpectedMatch(a, tag) ==
    LET hits == {k \in 1..Len(expected_op_queue) :
                    /\ op[expected_op_queue[k]].na_sm_addr = a
                    /\ op[expected_op_queue[k]].tag = tag}
    IN  IF hits = {} THEN 0
        ELSE expected_op_queue[CHOOSE k \in hits : \A j \in hits : k <= j]

\* A plausible slip: the op is left linked on the queue.
QueueRemove_keep(q, o) == q

\* HG_QUEUE_REMOVE(queue, op).
QueueRemove(q, o) == SelectSeq(q, LAMBDA x : x # o)

\* na_sm_progress_rx_queue(poll_addr) up to the point where the op queue
\* lock is dropped: pop a header from the rx ring; for an unexpected message
\* pop the first unexpected op (clearing QUEUED) or, if there is none, copy
\* the message into a held record and release the copy buffer; for an
\* expected message remove the matching op (clearing QUEUED), or fail with
\* NA_INVALID_ARG if there is none.
na_sm_progress_rx_queue ==
    /\ Running
    /\ prog.pc = "poll"
    /\ LET a == prog.cur
           A == addr[a]
           r == A.shared_region
           ring == RxRing(A)
       IN  IF A.state # "live"
           THEN Fault
           ELSE IF region[r][ring] = <<>>
           THEN /\ prog' = PollAdvance(prog)
                /\ UNCHANGED <<opVars, addrVars, region, canc, endpoint, fault>>
           ELSE LET hdr == Head(region[r][ring])
                    uo == IF unexpected_op_queue = <<>> THEN 0
                          ELSE Head(unexpected_op_queue)
                    eo == ExpectedMatch(a, hdr.tag)
                IN  /\ IF hdr.type = "NA_CB_SEND_UNEXPECTED"
                       THEN IF uo # 0
                            THEN /\ unexpected_op_queue' = Tail(unexpected_op_queue)
                                 /\ op' = [op EXCEPT ![uo].status =
                                              @ \ {NA_SM_OP_QUEUED}]
                                 /\ region' = [region EXCEPT ![r][ring] = Tail(@)]
                                 /\ prog' = [prog EXCEPT !.pc = "unexpected",
                                                         !.op = uo, !.hdr = hdr]
                                 /\ UNCHANGED <<expected_op_queue,
                                                unexpected_msg_queue>>
                            ELSE /\ unexpected_msg_queue' =
                                        Append(unexpected_msg_queue,
                                               [na_sm_addr |-> a,
                                                buf_size |-> hdr.buf_size,
                                                tag |-> hdr.tag])
                                 /\ region' = [region EXCEPT
                                        ![r][ring] = Tail(@),
                                        ![r].copy_reserved = @ \ {hdr.buf_idx}]
                                 /\ prog' = PollAdvance(prog)
                                 /\ UNCHANGED <<op, unexpected_op_queue,
                                                expected_op_queue>>
                       ELSE IF eo # 0
                            THEN /\ expected_op_queue' =
                                        QueueRemove(expected_op_queue, eo)
                                 /\ op' = [op EXCEPT ![eo].status =
                                              @ \ {NA_SM_OP_QUEUED}]
                                 /\ region' = [region EXCEPT ![r][ring] = Tail(@)]
                                 /\ prog' = [prog EXCEPT !.pc = "expected",
                                                         !.op = eo, !.hdr = hdr]
                                 /\ UNCHANGED <<unexpected_op_queue,
                                                unexpected_msg_queue>>
                            ELSE /\ region' = [region EXCEPT ![r][ring] = Tail(@)]
                                 /\ prog' = ProgIdle
                                 /\ UNCHANGED <<op, unexpected_op_queue,
                                                expected_op_queue,
                                                unexpected_msg_queue>>
                    /\ UNCHANGED <<retry_op_queue, completion_queue, addrVars,
                                   canc, endpoint, fault>>

\* The rest of na_sm_process_unexpected for the op it popped: attach
\* poll_addr with a reference, fill size and tag, release the copy buffer,
\* na_sm_complete.
na_sm_process_unexpected ==
    /\ Running
    /\ prog.pc = "unexpected"
    /\ LET a == prog.cur
           o == prog.op
           r == addr[a].shared_region
           h0 == [Heap EXCEPT
                     !.op[o].na_sm_addr = a,
                     !.addr[a].ref_count = @ + 1,
                     !.op[o].actual_buf_size = prog.hdr.buf_size,
                     !.op[o].tag = prog.hdr.tag,
                     !.region[r].copy_reserved = @ \ {prog.hdr.buf_idx}]
       IN  IF addr[a].state # "live"
           THEN Fault
           ELSE /\ SetHeap(na_sm_complete(h0, o))
                /\ prog' = PollAdvance(prog)
                /\ UNCHANGED <<queueVars, addr_map, handles, canc, endpoint,
                               fault>>

\* The rest of na_sm_process_expected for the op it removed: fill the size,
\* release the copy buffer, na_sm_complete.
na_sm_process_expected ==
    /\ Running
    /\ prog.pc = "expected"
    /\ LET a == prog.cur
           o == prog.op
           r == addr[a].shared_region
           h0 == [Heap EXCEPT
                     !.op[o].actual_buf_size = prog.hdr.buf_size,
                     !.region[r].copy_reserved = @ \ {prog.hdr.buf_idx}]
       IN  IF addr[a].state # "live"
           THEN Fault
           ELSE /\ SetHeap(na_sm_complete(h0, o))
                /\ prog' = PollAdvance(prog)
                /\ UNCHANGED <<queueVars, addr_map, handles, canc, endpoint,
                               fault>>

\* The first address of the poll list that a NA_SM_RELEASED command matches
\* (queue pair index and pid), NULL if none.
ReleasedMatch(list, cmd) ==
    LET hits == {k \in 1..Len(list) :
                    /\ addr[list[k]].queue_pair_idx = cmd.pair_idx
                    /\ addr[list[k]].pid = cmd.pid}
    IN  IF hits = {} THEN NULL
        ELSE list[CHOOSE k \in hits : \A j \in hits : k <= j]

\* A plausible slip: the address of a RESERVED command created like a
\* looked-up one, its queues not inverted.
na_sm_process_cmd_reserved_same_rings(h, cmd) ==
    [h EXCEPT
        !.addr["ux"] = [na_sm_addr_create(cmd.pid, FALSE) EXCEPT
                           !.shared_region = "own",
                           !.queue_pair_idx = cmd.pair_idx,
                           !.tx_queue = [region |-> "own", idx |-> cmd.pair_idx],
                           !.status = {NA_SM_ADDR_RESOLVED}],
        !.list = <<"ux">> \o @]

\* na_sm_process_cmd, NA_SM_RESERVED: create the unexpected address on the
\* own region with the pair the peer reserved, mark it resolved, put it at
\* the head of the poll list.
na_sm_process_cmd_reserved(h, cmd) ==
    [h EXCEPT
        !.addr["ux"] = [na_sm_addr_create(cmd.pid, TRUE) EXCEPT
                           !.shared_region = "own",
                           !.queue_pair_idx = cmd.pair_idx,
                           !.tx_queue = [region |-> "own", idx |-> cmd.pair_idx],
                           !.status = {NA_SM_ADDR_RESOLVED}],
        !.list = <<"ux">> \o @]

\* na_sm_process_cmd, NA_SM_RELEASED: find the address in the poll list,
\* drop one reference and destroy the address when none is left.
na_sm_process_cmd_released(h, cmd) ==
    LET a == ReleasedMatch(h.list, cmd)
    IN  IF a = NULL THEN h ELSE AddrFree(h, a)

\* na_sm_progress_cmd_queue: pop one command from the own region's command
\* queue and process it; then on to the retries.
na_sm_progress_cmd_queue ==
    /\ Running
    /\ prog.pc = "cmd"
    /\ prog' = [ProgIdle EXCEPT !.pc = "retries"]
    /\ IF region["own"].cmd_queue = <<>>
       THEN UNCHANGED <<op, completion_queue, addr, region, poll_addr_list>>
       ELSE LET cmd == Head(region["own"].cmd_queue)
                h0 == [Heap EXCEPT !.region["own"].cmd_queue = Tail(@)]
            IN  SetHeap(IF cmd.type = "NA_SM_RESERVED"
                        THEN na_sm_process_cmd_reserved(h0, cmd)
                        ELSE na_sm_process_cmd_released(h0, cmd))
    /\ UNCHANGED <<queueVars, addr_map, handles, canc, endpoint, fault>>

\* A plausible slip: the drain takes the op parked last.
na_sm_process_retries_head_last ==
    /\ Running
    /\ prog.pc = "retries"
    /\ prog' = IF retry_op_queue = <<>>
               THEN ProgIdle
               ELSE [ProgIdle EXCEPT !.pc = "retry_reserve",
                                     !.op = retry_op_queue[Len(retry_op_queue)]]
    /\ UNCHANGED <<opVars, addrVars, region, canc, endpoint, fault>>

\* na_sm_process_retries, top of the loop: read the head of the retry queue
\* under the lock; return if there is none.
na_sm_process_retries_head ==
    /\ Running
    /\ prog.pc = "retries"
    /\ prog' = IF retry_op_queue = <<>>
               THEN ProgIdle
               ELSE [ProgIdle EXCEPT !.pc = "retry_reserve",
                                     !.op = Head(retry_op_queue)]
    /\ UNCHANGED <<opVars, addrVars, region, canc, endpoint, fault>>

\* na_sm_process_retries: resolve the op's address if needed and try to
\* reserve a copy buffer; with none free the function returns.
na_sm_process_retries_reserve ==
    /\ Running
    /\ prog.pc = "retry_reserve"
    /\ LET o == prog.op
           a == op[o].na_sm_addr
           h1 == IF NA_SM_ADDR_RESOLVED \notin addr[a].status
                 THEN na_sm_addr_resolve(Heap, a)
                 ELSE Heap
           ret == IF NA_SM_ADDR_RESOLVED \notin addr[a].status
                  THEN na_sm_addr_resolve_ret(Heap, a)
                  ELSE "NA_SUCCESS"
           r == h1.addr[a].shared_region
           buf_idx == LowestFree(h1.region[r].copy_reserved, NA_SM_NUM_BUFS)
       IN  IF a = NULL
           THEN FaultAs("null_dereference")
           ELSE IF addr[a].state # "live"
           THEN Fault
           ELSE IF ret \notin {"NA_SUCCESS", "NA_AGAIN"}
           THEN \* the error is not looked at: shared_region->copy_bufs is read
                \* through the NULL shared_region
                FaultAs("null_dereference")
           ELSE /\ IF ret = "NA_AGAIN" \/ buf_idx = -1
                   THEN /\ SetHeap(h1)
                        /\ prog' = ProgIdle
                   ELSE /\ SetHeap([h1 EXCEPT
                               !.region[r].copy_reserved = @ \cup {buf_idx}])
                        /\ prog' = [prog EXCEPT !.pc = "retry_check",
                                                !.buf_idx = buf_idx]
                /\ UNCHANGED <<queueVars, addr_map, handles, canc, endpoint,
                               fault>>

\* na_sm_process_retries, under the retry queue lock: an op canceled in the
\* meantime is left alone (the buffer is released and the loop continues);
\* otherwise the op is removed from the queue and QUEUED is cleared.
na_sm_process_retries_check ==
    /\ Running
    /\ prog.pc = "retry_check"
    /\ LET o == prog.op
           a == op[o].na_sm_addr
           r == addr[a].shared_region
       IN  IF NA_SM_OP_CANCELED \in op[o].status
           THEN IF a = NULL
                THEN FaultAs("null_dereference")
                ELSE IF addr[a].state # "live"
                THEN Fault
                ELSE /\ region' = [region EXCEPT
                            ![r].copy_reserved = @ \ {prog.buf_idx}]
                     /\ prog' = [ProgIdle EXCEPT !.pc = "retries"]
                     /\ UNCHANGED <<opVars, addrVars, canc, endpoint, fault>>
           ELSE IF \A k \in 1..Len(retry_op_queue) : retry_op_queue[k] # o
           THEN FaultAs("queue_corruption")
           ELSE /\ retry_op_queue' = QueueRemove(retry_op_queue, o)
                /\ op' = [op EXCEPT ![o].status = @ \ {NA_SM_OP_QUEUED}]
                /\ prog' = [prog EXCEPT !.pc = "retry_post"]
                /\ UNCHANGED <<unexpected_op_queue, expected_op_queue,
                               unexpected_msg_queue, completion_queue,
                               addrVars, region, canc, endpoint, fault>>

\* na_sm_process_retries, after the lock: push the header on the tx ring and
\* complete the op, then go round the loop; on a full ring give the buffer
\* and the reference back, set COMPLETED and return the error.
na_sm_process_retries_post ==
    /\ Running
    /\ prog.pc = "retry_post"
    /\ LET o == prog.op
           O == op[o]
           a == O.na_sm_addr
           r == addr[a].shared_region
           ring == TxRing(addr[a])
       IN  IF addr[a].state # "live"
           THEN Fault
           ELSE /\ IF MsgQueueFull(region[r][ring])
                   THEN /\ SetHeap([Heap EXCEPT
                               !.region[r].copy_reserved = @ \ {prog.buf_idx},
                               !.addr[a].ref_count = @ - 1,
                               !.op[o].status = {NA_SM_OP_COMPLETED}])
                        /\ prog' = ProgIdle
                   ELSE /\ SetHeap(na_sm_complete(
                               [Heap EXCEPT !.region[r][ring] =
                                   Append(@, MsgHdr(O.type, prog.buf_idx,
                                                    O.buf_size, O.tag))], o))
                        /\ prog' = [ProgIdle EXCEPT !.pc = "retries"]
                /\ UNCHANGED <<queueVars, addr_map, handles, canc, endpoint,
                               fault>>

(***************************************************************************)
(* na_sm_cancel on its own thread.  canc = [pc, op].                       *)
(* op[o].hist records, for the checks, what the op's state was when the    *)
(* first cancel of this post set CANCELED: "queued" (on an op queue) or    *)
(* "inflight" (taken off its queue by progress, not yet completed).        *)
(***************************************************************************)

\* The queue na_sm_cancel picks from the op's callback type.
CancelQueue(type) ==
    CASE type = "NA_CB_RECV_UNEXPECTED" -> "unexpected_op_queue"
      [] type = "NA_CB_RECV_EXPECTED" -> "expected_op_queue"
      [] OTHER -> "retry_op_queue"

\* hg_atomic_or32(&status, NA_SM_OP_CANCELED): if COMPLETED was set the call
\* is over, else it goes on to the op's queue.
na_sm_cancel_call(o) ==
    /\ Running
    /\ canc.pc = "idle"
    /\ op[o].type # "NONE"
    /\ LET old == op[o].status
           case == IF NA_SM_OP_COMPLETED \in old \/ op[o].hist # "none"
                   THEN op[o].hist
                   ELSE IF NA_SM_OP_QUEUED \in old THEN "queued" ELSE "inflight"
       IN  /\ op' = [op EXCEPT ![o].status = @ \cup {NA_SM_OP_CANCELED},
                               ![o].hist = case]
           /\ canc' = IF NA_SM_OP_COMPLETED \in old
                      THEN CancIdle
                      ELSE [pc |-> "lock", op |-> o,
                            queue |-> CancelQueue(op[o].type)]
    /\ UNCHANGED <<queueVars, completion_queue, addrVars, region, prog,
                   endpoint, fault>>

\* The ops linked on the queue of that name.
OnQueue(q) ==
    CASE q = "unexpected_op_queue" -> unexpected_op_queue
      [] q = "expected_op_queue" -> expected_op_queue
      [] OTHER -> retry_op_queue

\* Under the lock of the queue picked at the call: if QUEUED is set, remove
\* the op from that queue and clear QUEUED (canceled = TRUE); else the call
\* is over.  HG_QUEUE_REMOVE of an op that is not on the queue corrupts it.
na_sm_cancel_remove ==
    /\ Running
    /\ canc.pc = "lock"
    /\ LET o == canc.op
           q == canc.queue
       IN  IF NA_SM_OP_QUEUED \notin op[o].status
           THEN /\ canc' = CancIdle
                /\ UNCHANGED <<opVars, addrVars, region, prog, endpoint, fault>>
           ELSE IF \A k \in 1..Len(OnQueue(q)) : OnQueue(q)[k] # o
           THEN FaultAs("queue_corruption")
           ELSE /\ op' = [op EXCEPT ![o].status = @ \ {NA_SM_OP_QUEUED}]
                /\ unexpected_op_queue' =
                       IF q = "unexpected_op_queue"
                       THEN QueueRemove(unexpected_op_queue, o)
                       ELSE unexpected_op_queue
                /\ expected_op_queue' =
                       IF q = "expected_op_queue"
                       THEN QueueRemove(expected_op_queue, o)
                       ELSE expected_op_queue
                /\ retry_op_queue' =
                       IF q = "retry_op_queue"
                       THEN QueueRemove(retry_op_queue, o)
                       ELSE retry_op_queue
                /\ canc' = [canc EXCEPT !.pc = "complete"]
                /\ UNCHANGED <<unexpected_msg_queue, completion_queue,
                               addrVars, region, prog, endpoint, fault>>

\* canceled = TRUE: na_sm_complete on the op.
na_sm_cancel_complete ==
    /\ Running
    /\ canc.pc = "complete"
    /\ LET o == canc.op
           O == op[o]
       IN  IF CompleteTakesRef(O) /\ O.na_sm_addr = NULL
           THEN FaultAs("null_dereference")
           ELSE /\ SetHeap(na_sm_complete(Heap, o))
                /\ canc' = CancIdle
                /\ UNCHANGED <<queueVars, addr_map, handles, prog, endpoint,
                               fault>>

(***************************************************************************)
(* na_sm_endpoint_close, called by the caller while no thread is inside    *)
(* na_sm_progress or na_sm_cancel.                                         *)
(***************************************************************************)

RECURSIVE DestroyAll(_, _)
\* The loop over the poll list: every address on it is removed from the
\* list and destroyed.
DestroyAll(h, list) ==
    IF list = <<>> THEN h
    ELSE DestroyAll(
             na_sm_addr_destroy([h EXCEPT !.list = ListRemove(@, Head(list))],
                                Head(list)),
             Tail(list))

\* na_sm_endpoint_close: destroy the addresses left on the poll list; then
\* NA_BUSY if a held record or a queued op is left; else release the own
\* queue pair, close the own region and free the source address.
na_sm_endpoint_close ==
    /\ Running
    /\ prog.pc = "idle"
    /\ canc.pc = "idle"
    /\ LET h1 == DestroyAll(Heap, poll_addr_list)
           busy == \/ unexpected_msg_queue # <<>>
                   \/ unexpected_op_queue # <<>>
                   \/ expected_op_queue # <<>>
                   \/ retry_op_queue # <<>>
       IN  IF busy
           THEN /\ SetHeap(h1)
                /\ endpoint' = [endpoint EXCEPT !.ret = "NA_BUSY"]
           ELSE /\ SetHeap([h1 EXCEPT
                       !.region["own"].pair_reserved = @ \ {0},
                       !.region["own"].mapped = FALSE])
                /\ endpoint' = [endpoint EXCEPT !.ret = "NA_SUCCESS",
                                                !.state = "closed"]
    /\ UNCHANGED <<queueVars, addr_map, handles, prog, canc, fault>>

(***************************************************************************)
(* Properties of the endpoint.                                             *)
(***************************************************************************)

\* The op is linked on the queue q.
Linked(q, o) == \E k \in 1..Len(q) : q[k] = o

\* The progress step that copies an unexpected message into a held record:
\* a header of that type is at the head of the polled address's rx ring and
\* no unexpected receive is posted.
HoldsMessage ==
    /\ prog.pc = "poll"
    /\ addr[prog.cur].state = "live"
    /\ region[addr[prog.cur].shared_region][RxRing(addr[prog.cur])] # <<>>
    /\ Head(region[addr[prog.cur].shared_region][RxRing(addr[prog.cur])]).type
           = "NA_CB_SEND_UNEXPECTED"
    /\ unexpected_op_queue = <<>>
    /\ na_sm_progress_rx_queue

\* C3: an unexpected message processed while no unexpected receive is posted
\* is appended to the unexpected message queue as a held record with the
\* message's size, tag and source; a na_sm_msg_recv_unexpected call that
\* finds a held record takes the first one off the queue (once) and
\* completes at once, reporting success with the record's size and tag and
\* its source address, which is an address that still exists.
C3_HeldRecordDelivered ==
    [][/\ HoldsMessage =>
              LET hdr == Head(region[addr[prog.cur].shared_region]
                                    [RxRing(addr[prog.cur])])
              IN  unexpected_msg_queue' =
                      Append(unexpected_msg_queue,
                             [na_sm_addr |-> prog.cur,
                              buf_size |-> hdr.buf_size, tag |-> hdr.tag])
       /\ \A o \in Ops :
              (unexpected_msg_queue # <<>> /\ na_sm_msg_recv_unexpected(o)) =>
                  LET info == Head(unexpected_msg_queue)
                  IN  /\ unexpected_msg_queue' = Tail(unexpected_msg_queue)
                      /\ completion_queue' = Append(completion_queue, o)
                      /\ op'[o].ncomplete = 1
                      /\ op'[o].cb = [ret |-> "NA_SUCCESS",
                                      actual_buf_size |-> info.buf_size,
                                      source |-> info.na_sm_addr,
                                      tag |-> info.tag]
                      /\ addr'[info.na_sm_addr].state = "live"]_vars

\* A na_sm_cancel call on the op o is under way.
CancelPending(o) == canc.pc # "idle" /\ canc.op = o

\* No cancel has been called on this post of the op o and none, called on
\* an earlier post of the same op, is still under way.
NoCancel(o) == op[o].hist = "none" /\ ~CancelPending(o)

\* The op on which the progress thread retries is a parked send that no
\* cancel touches.
RetryingParked ==
    /\ prog.op \in Ops
    /\ op[prog.op].parked
    /\ NoCancel(prog.op)

\* C4, the states: a parked send that no cancel touches stays on the retry
\* queue with QUEUED set until the progress thread takes it; it is completed
\* at most once, with NA_SUCCESS, and is then on no op queue.
C4_ParkedState ==
    \A o \in Ops :
        (op[o].parked /\ NoCancel(o)) =>
            /\ op[o].ncomplete <= 1
            /\ IF NA_SM_OP_COMPLETED \in op[o].status
               THEN /\ op[o].ncomplete = 1
                    /\ op[o].cb.ret = "NA_SUCCESS"
                    /\ ~Linked(retry_op_queue, o)
               ELSE \/ /\ op[o].status = {NA_SM_OP_QUEUED}
                       /\ Linked(retry_op_queue, o)
                    \/ /\ op[o].status = {}
                       /\ prog.pc = "retry_post" /\ prog.op = o
                       /\ ~Linked(retry_op_queue, o)

\* C4, the steps: a send posted while the target region has no free copy
\* buffer is appended to the retry queue with QUEUED set and is not
\* completed; when the progress thread finds a free buffer it reserves it,
\* removes the op from the retry queue, pushes the op's header onto the
\* address's tx ring and adds exactly one completion entry.  The steps
\* are those on a parked op that no cancel touches and that is still on the
\* retry queue or, for the last one, taken off it and not yet completed.
C4_ParkedSteps ==
    /\ \A o \in Ops, a \in AddrIds :
           \A type \in {"NA_CB_SEND_UNEXPECTED", "NA_CB_SEND_EXPECTED"} :
               (/\ na_sm_msg_send(o, a, type)
                /\ addr[a].state = "live"
                /\ NA_SM_ADDR_RESOLVED \in addr[a].status
                /\ region[addr[a].shared_region].copy_reserved = AllBufs) =>
                   /\ retry_op_queue' = Append(retry_op_queue, o)
                   /\ op'[o].status = {NA_SM_OP_QUEUED}
                   /\ completion_queue' = completion_queue
                   /\ fault' = "none"
    /\ (prog.pc = "retry_reserve" /\ RetryingParked
           /\ Linked(retry_op_queue, prog.op)
           /\ na_sm_process_retries_reserve) =>
           LET r == addr[op[prog.op].na_sm_addr].shared_region
           IN  IF region[r].copy_reserved = AllBufs
               THEN prog'.pc = "idle" /\ op' = op
               ELSE /\ prog'.pc = "retry_check"
                    /\ prog'.buf_idx \notin region[r].copy_reserved
                    /\ prog'.buf_idx \in region'[r].copy_reserved
    /\ (prog.pc = "retry_check" /\ RetryingParked
           /\ Linked(retry_op_queue, prog.op)
           /\ na_sm_process_retries_check) =>
           /\ prog'.pc = "retry_post"
           /\ retry_op_queue' = QueueRemove(retry_op_queue, prog.op)
           /\ ~Linked(retry_op_queue', prog.op)
           /\ op'[prog.op].status = {}
    /\ (prog.pc = "retry_post" /\ RetryingParked
           /\ NA_SM_OP_COMPLETED \notin op[prog.op].status
           /\ na_sm_process_retries_post) =>
           LET O == op[prog.op]
               A == addr[O.na_sm_addr]
               r == A.shared_region
           IN  /\ region'[r][TxRing(A)] =
                      Append(region[r][TxRing(A)],
                             MsgHdr(O.type, prog.buf_idx, MsgSize, MsgTag))
               /\ completion_queue' = Append(completion_queue, prog.op)
               /\ op'[prog.op].ncomplete = 1
               /\ op'[prog.op].cb.ret = "NA_SUCCESS"

CancelCompletes(o) == canc.pc = "complete" /\ canc.op = o

\* C5 as stated: a cancel called on an op that progress has taken off its
\* queue and not yet completed produces no completion itself, and the op
\* completes with a successful result.
C5_InflightCancelSuccess ==
    \A o \in Ops :
        op[o].hist = "inflight" =>
            /\ ~CancelCompletes(o)
            /\ op[o].ncomplete <= 1
            /\ NA_SM_OP_COMPLETED \in op[o].status =>
                   (op[o].ncomplete = 1 /\ op[o].cb.ret = "NA_SUCCESS")

\* C5 amended: a cancel called on an op that progress has taken off its
\* queue and not yet completed produces no completion itself, and the op
\* completes exactly once, with the result NA_CANCELED.
C5_InflightCancelCanceled ==
    \A o \in Ops :
        op[o].hist = "inflight" =>
            /\ ~CancelCompletes(o)
            /\ op[o].ncomplete <= 1
            /\ NA_SM_OP_COMPLETED \in op[o].status =>
                   (op[o].ncomplete = 1 /\ op[o].cb.ret = "NA_CANCELED")

\* An op canceled in flight has been completed by progress and the cancel
\* call has returned.
C5_Witness ==
    \E o \in Ops :
        /\ op[o].hist = "inflight"
        /\ NA_SM_OP_COMPLETED \in op[o].status
        /\ Linked(completion_queue, o)
        /\ canc.pc = "idle"

\* The op is linked on one of the three op queues.
OnOpQueue(o) ==
    \/ Linked(unexpected_op_queue, o)
    \/ Linked(expected_op_queue, o)
    \/ Linked(retry_op_queue, o)

\* C6, the states: an op that was on an op queue when cancel was called on
\* it is completed at most once; once completed it carries the result
\* NA_CANCELED and is on no op queue.
C6_CanceledState ==
    \A o \in Ops :
        op[o].hist = "queued" =>
            /\ op[o].ncomplete <= 1
            /\ NA_SM_OP_COMPLETED \in op[o].status =>
                   /\ op[o].ncomplete = 1
                   /\ op[o].cb.ret = "NA_CANCELED"
                   /\ ~OnOpQueue(o)

\* C6, the steps: once such an op is completed, a step of the progress
\* thread's retry loop that still has the op in hand does nothing to it: no
\* access to memory the op no longer owns, no removal from a queue, no
\* header pushed, no completion.
C6_CanceledSteps ==
    \A o \in Ops :
        (/\ op[o].hist = "queued"
         /\ NA_SM_OP_COMPLETED \in op[o].status
         /\ prog.op = o
         /\ \/ prog.pc = "retry_reserve" /\ na_sm_process_retries_reserve
            \/ prog.pc = "retry_check" /\ na_sm_process_retries_check
            \/ prog.pc = "retry_post" /\ na_sm_process_retries_post) =>
            /\ fault' = "none"
            /\ op' = op
            /\ retry_op_queue' = retry_op_queue
            /\ completion_queue' = completion_queue
            /\ \A r \in Regions :
                   /\ region'[r].tx_queue = region[r].tx_queue
                   /\ region'[r].rx_queue = region[r].rx_queue

\* C6: cancel of an op that is on the unexpected, expected or retry queue
\* removes it and completes it exactly once with a canceled result under
\* every interleaving with the progress thread; afterwards the op is on no
\* queue and the progress thread does not pop, post or complete it again.
C6_QueuedCancelOnce == []C6_CanceledState /\ [][C6_CanceledSteps]_vars

\* C7: na_sm_endpoint_close called while an op is on the unexpected,
\* expected or retry queue returns NA_BUSY and frees nothing: no address is
\* destroyed or taken off the poll list, no queue pair is released, no
\* region is unmapped, nothing is sent to the peer.
C7_BusyCloseFreesNothing ==
    [][((\E o \in Ops : OnOpQueue(o)) /\ na_sm_endpoint_close) =>
           /\ endpoint'.ret = "NA_BUSY"
           /\ endpoint'.state = "open"
           /\ addr' = addr
           /\ poll_addr_list' = poll_addr_list
           /\ region' = region]_vars

\* The number of times the op is linked on the queue q.
Links(q, o) == Cardinality({k \in 1..Len(q) : q[k] = o})

\* C8: an op is linked at most once in all of the retry queue, the
\* unexpected and expected op queues and the completion queue together
\* (otherwise the caller or a thread working on it owns it); an op on an op
\* queue is not completed, and QUEUED and COMPLETED are never set together.
C8_SingleOwner ==
    \A o \in Ops :
        /\ Links(retry_op_queue, o) + Links(unexpected_op_queue, o)
             + Links(expected_op_queue, o) + Links(completion_queue, o) <= 1
        /\ OnOpQueue(o) => NA_SM_OP_COMPLETED \notin op[o].status
        /\ Linked(completion_queue, o) => NA_SM_OP_COMPLETED \in op[o].status
        /\ ~(/\ NA_SM_OP_QUEUED \in op[o].status
             /\ NA_SM_OP_COMPLETED \in op[o].status)

\* One op is queued while another, an unexpected receive completed with a
\* source address, is on the completion queue.
C8_Witness ==
    \E o1, o2 \in Ops :
        /\ OnOpQueue(o1)
        /\ NA_SM_OP_QUEUED \in op[o1].status
        /\ Linked(completion_queue, o2)
        /\ op[o2].type = "NA_CB_RECV_UNEXPECTED"
        /\ op[o2].cb.source # NULL

\* The holders that point to the address a: the caller's handles, the ops
\* posted with it and not yet released, the held records received from it.
Holders(a) ==
    handles[a]
    + Cardinality({o \in Ops : op[o].na_sm_addr = a})
    + Cardinality({k \in 1..Len(unexpected_msg_queue) :
                      unexpected_msg_queue[k].na_sm_addr = a})

\* C9: while the endpoint is in use, the reference count of an address
\* covers the handles, ops and held records that point to it, and an
\* address that a handle, an op or a held record points to has not been
\* destroyed.
C9_RefCountCoversHolders ==
    endpoint.ret = "NONE" =>
        \A a \in AddrIds :
            /\ addr[a].state = "live" => addr[a].ref_count >= Holders(a)
            /\ Holders(a) > 0 => addr[a].state = "live"

\* C10, the states: while the endpoint is open, an address that has been
\* destroyed was destroyed with a reference count of zero.
C10_DestroyedState ==
    endpoint.state = "open" =>
        \A a \in AddrIds : addr[a].state = "freed" => addr[a].ref_count = 0

\* C10, the steps: a destroyed address is not touched, let alone destroyed,
\* again.
C10_DestroyedSteps ==
    \A a \in AddrIds : addr[a].state = "freed" => addr'[a] = addr[a]

\* C10: an address is torn down at most once and only when its reference
\* count has reached zero, whether by na_sm_addr_free, by NA_SM_RELEASED or
\* by na_sm_endpoint_close.
C10_DestroyedOnceAtZero == []C10_DestroyedState /\ [][C10_DestroyedSteps]_vars

(***************************************************************************)
(* SpecHdr: one send builds a message header and pushes it onto the tx     *)
(* ring of a resolved address; the receiver pops it.  The 64-bit value of  *)
(* the union na_sm_msg_hdr_t is held as its four bit-fields, each cut to   *)
(* its width; the value is 0 exactly when the four fields are 0.           *)
(* thr = [pc, type, tag, buf_size, msg_hdr, ret]: the arguments of the     *)
(* send, then the header and the result of na_sm_msg_queue_pop.            *)
(***************************************************************************)

\* The tags and buffer sizes the caller sends with (a size above
\* NA_SM_UNEXPECTED_SIZE is refused with NA_OVERFLOW before anything else).
HdrTags == {0, 1, MsgTag}

HdrSizes == {0, 1, MsgSize, RecvBufSize}

\* The copy buffers other sends hold when the send is posted.
HdrInitReserved == {{}, {0}, AllBufs \ {NA_SM_NUM_BUFS - 1}}

\* The value of the enumeration na_cb_type_t for a message operation.
na_cb_type(type) ==
    CASE type = "NA_CB_SEND_UNEXPECTED" -> 0
      [] type = "NA_CB_RECV_UNEXPECTED" -> 1
      [] type = "NA_CB_SEND_EXPECTED" -> 2
      [] OTHER -> 3

\* msg_hdr.hdr.type = type; .buf_idx = buf_idx & 0xff;
\* .buf_size = buf_size & 0xffff; .tag = tag.
na_sm_msg_hdr_t(type, buf_idx, buf_size, tag) ==
    [tag |-> tag, buf_size |-> buf_size % 65536, buf_idx |-> buf_idx % 256,
     type |-> na_cb_type(type) % 256]

\* The header whose val is 0: what a pop of an empty ring yields.
HdrZero == [tag |-> 0, buf_size |-> 0, buf_idx |-> 0, type |-> 0]

HdrInit ==
    /\ thr \in [pc : {"send"},
                type : {"NA_CB_SEND_UNEXPECTED", "NA_CB_SEND_EXPECTED"},
                tag : HdrTags, buf_size : HdrSizes, msg_hdr : {NULL},
                ret : {"NONE"}]
    /\ \E c \in HdrInitReserved :
           region = [r \in {"peer"} |->
                        [RegionInit(TRUE) EXCEPT !.copy_reserved = c]]
    /\ op = <<>>
    /\ unexpected_op_queue = <<>>
    /\ expected_op_queue = <<>>
    /\ retry_op_queue = <<>>
    /\ unexpected_msg_queue = <<>>
    /\ completion_queue = <<>>
    /\ addr = <<>>
    /\ addr_map = NULL
    /\ poll_addr_list = <<>>
    /\ handles = <<>>
    /\ prog = ProgIdle
    /\ canc = CancIdle
    /\ endpoint = [state |-> "parked"]
    /\ fault = "none"

\* na_sm_msg_send_unexpected / _expected from the buffer reservation on:
\* reserve a copy buffer, fill the header, push its val onto the tx ring.
na_sm_msg_send_push ==
    /\ thr.pc = "send"
    /\ LET buf_idx == LowestFree(region["peer"].copy_reserved, NA_SM_NUM_BUFS)
           msg_hdr == na_sm_msg_hdr_t(thr.type, buf_idx, thr.buf_size, thr.tag)
       IN  /\ buf_idx # -1
           /\ region' = [region EXCEPT
                  !["peer"].copy_reserved = @ \cup {buf_idx},
                  !["peer"].tx_queue = Append(@, msg_hdr)]
    /\ thr' = [thr EXCEPT !.pc = "sent"]
    /\ UNCHANGED <<bufVars, qpVars, opVars, addrVars, prog, canc, endpoint,
                   fault>>

\* na_sm_msg_queue_pop on the receiver: the ring hands out its first entry,
\* or 0 when it has none; the result is NA_TRUE if the val is not 0.
na_sm_msg_queue_pop ==
    /\ thr.pc \in {"send", "sent"}
    /\ LET ring == region["peer"].tx_queue
           val == IF ring = <<>> THEN HdrZero ELSE Head(ring)
       IN  /\ region' = [region EXCEPT
                  !["peer"].tx_queue = IF ring = <<>> THEN @ ELSE Tail(@)]
           /\ thr' = [thr EXCEPT
                  !.pc = IF ring = <<>> THEN @ ELSE "popped",
                  !.msg_hdr = val,
                  !.ret = IF val # HdrZero THEN "NA_TRUE" ELSE "NA_FALSE"]
    /\ UNCHANGED <<bufVars, qpVars, opVars, addrVars, prog, canc, endpoint,
                   fault>>

\* C13: every header a send pushes onto a ring has a val other than 0, and
\* a pop that takes a pushed header off the ring returns NA_TRUE.
C13_HeaderNonzero ==
    /\ \A k \in 1..Len(region["peer"].tx_queue) :
           region["peer"].tx_queue[k] # HdrZero
    /\ thr.pc = "popped" => thr.ret = "NA_TRUE"

(***************************************************************************)
(* SpecAddr: threads of one endpoint look the peer up and post a send to   *)
(* it: na_sm_addr_lookup, the RESOLVED test of the send (or of             *)
(* na_sm_process_retries for a parked op) and na_sm_addr_resolve, one lock *)
(* section or atomic access at a time.  Both progress modes are covered:   *)
(* endpoint.poll_set tells whether the endpoint has a poll set, and        *)
(* endpoint.sock counts the handshake datagrams sent.  addr is the         *)
(* address slots, of which malloc hands out the first unallocated one,     *)
(* addr_map the entry of the peer's key.  endpoint.sock is the sequence of *)
(* command headers sent on the socket, endpoint.registered the addresses   *)
(* whose rx_notify is registered in the poll set, endpoint.failures the     *)
(* number of system calls that have failed; endpoint.held and              *)
(* endpoint.released are, for the address na_sm_endpoint_close destroyed,  *)
(* what it held and what na_sm_addr_release released, in order.            *)
(* thr[t] = [pc, na_sm_addr, ret, entry_status, retry, held, unwound]:     *)
(* entry_status is the address status when the thread entered              *)
(* na_sm_addr_resolve, retry tells that it entered from                    *)
(* na_sm_process_retries; held and unwound are, for the last call that     *)
(* failed, what the address held then (in the order of acquisition) and    *)
(* what the error path released (in the order of release).                 *)
(***************************************************************************)

\* A command of another client of the peer.
OtherCmd == [type |-> "NA_SM_RESERVED", pid |-> "other", pair_idx |-> 0]

\* The peer's command queue when the threads start: empty, or full of the
\* commands of other clients that the peer has not processed yet.
AddrInitCmdQueue ==
    {<<>>, [k \in 1..((NA_SM_MAX_PEERS * 2) - 1) |-> OtherCmd]}

AddrInit ==
    /\ thr = [t \in Threads |->
                 [pc |-> "idle", na_sm_addr |-> NULL, ret |-> "NONE",
                  entry_status |-> {}, retry |-> FALSE, held |-> <<>>,
                  unwound |-> <<>>]]
    /\ addr = [a \in AddrIds |-> NoAddr]
    /\ addr_map = NULL
    /\ poll_addr_list = <<>>
    /\ \E q \in AddrInitCmdQueue :
           region = [r \in {"peer"} |->
                        [RegionInit(FALSE) EXCEPT !.cmd_queue = q]]
    /\ endpoint \in [state : {"open"}, poll_set : BOOLEAN, sock : {<<>>},
                      registered : {{}}, failures : {0}, held : {<<>>},
                      released : {<<>>}]
    /\ op = <<>>
    /\ unexpected_op_queue = <<>>
    /\ expected_op_queue = <<>>
    /\ retry_op_queue = <<>>
    /\ unexpected_msg_queue = <<>>
    /\ completion_queue = <<>>
    /\ handles = <<>>
    /\ prog = ProgIdle
    /\ canc = CancIdle
    /\ fault = "none"

\* malloc(sizeof(struct na_sm_addr)): a slot that is not allocated.
Malloc == IF addr["lk"].state = "unalloc" THEN "lk" ELSE "ux"

\* What a step of SpecAddr leaves alone besides the address state.
addrRest == <<bufVars, qpVars, opVars, handles, prog, canc>>

\* na_sm_addr_lookup: na_sm_addr_map_lookup under the read lock.
na_sm_addr_lookup_call(t) ==
    /\ fault = "none"
    /\ endpoint.state = "open"
    /\ thr[t].pc = "idle"
    /\ thr' = [thr EXCEPT ![t].na_sm_addr = addr_map,
                          ![t].pc = IF addr_map = NULL THEN "map_insert"
                                    ELSE "incr"]
    /\ UNCHANGED <<addrRest, addr, addr_map, poll_addr_list, region, endpoint,
                   fault>>

\* A plausible slip: no second look-up under the write lock.
na_sm_addr_map_insert_blind(t) ==
    /\ fault = "none"
    /\ thr[t].pc = "map_insert"
    /\ addr' = [addr EXCEPT ![Malloc] = na_sm_addr_create(PeerPid, FALSE)]
    /\ addr_map' = Malloc
    /\ thr' = [thr EXCEPT ![t].na_sm_addr = Malloc,
                          ![t].ret = "NA_SUCCESS", ![t].pc = "incr"]
    /\ UNCHANGED <<addrRest, poll_addr_list, region, endpoint, fault>>

\* na_sm_addr_map_insert under the write lock: look the key up again; an
\* entry that exists is returned with NA_EXIST, else a new address is
\* created (na_sm_addr_lookup_insert_cb) and entered.
na_sm_addr_map_insert(t) ==
    /\ fault = "none"
    /\ thr[t].pc = "map_insert"
    /\ IF addr_map # NULL
       THEN /\ thr' = [thr EXCEPT ![t].na_sm_addr = addr_map,
                                  ![t].ret = "NA_EXIST", ![t].pc = "incr"]
            /\ UNCHANGED <<addr, addr_map>>
       ELSE /\ addr' = [addr EXCEPT
                       ![Malloc] = na_sm_addr_create(PeerPid, FALSE)]
            /\ addr_map' = Malloc
            /\ thr' = [thr EXCEPT ![t].na_sm_addr = Malloc,
                                  ![t].ret = "NA_SUCCESS", ![t].pc = "incr"]
    /\ UNCHANGED <<addrRest, poll_addr_list, region, endpoint, fault>>

\* na_sm_addr_lookup: hg_atomic_incr32(&ref_count) and return the address.
na_sm_addr_lookup_incr(t) ==
    /\ fault = "none"
    /\ thr[t].pc = "incr"
    /\ addr' = [addr EXCEPT ![thr[t].na_sm_addr].ref_count = @ + 1]
    /\ thr' = [thr EXCEPT ![t].pc = "send"]
    /\ UNCHANGED <<addrRest, addr_map, poll_addr_list, region, endpoint,
                   fault>>

\* na_sm_msg_send_unexpected / _expected up to the RESOLVED test: take a
\* reference for the op, then resolve the address if the bit is clear; with
\* the bit set the send goes on to the copy buffers.
na_sm_msg_send_check(t) ==
    /\ fault = "none"
    /\ thr[t].pc = "send"
    /\ addr' = [addr EXCEPT ![thr[t].na_sm_addr].ref_count = @ + 1]
    /\ thr' = [thr EXCEPT ![t].pc =
                  IF NA_SM_ADDR_RESOLVED \in addr[thr[t].na_sm_addr].status
                  THEN "buf" ELSE "resolve"]
    /\ UNCHANGED <<addrRest, addr_map, poll_addr_list, region, endpoint,
                   fault>>

\* na_sm_process_retries on the op the send parked: the same test.
na_sm_process_retries_resolved(t) ==
    /\ fault = "none"
    /\ endpoint.state = "open"
    /\ thr[t].pc = "parked"
    /\ thr' = [thr EXCEPT ![t].retry = TRUE,
                          ![t].pc =
                  IF NA_SM_ADDR_RESOLVED \in addr[thr[t].na_sm_addr].status
                  THEN "buf" ELSE "resolve"]
    /\ UNCHANGED <<addrRest, addr, addr_map, poll_addr_list, region, endpoint,
                   fault>>

\* na_sm_addr_resolve is entered: open the peer's region if the address has
\* none.
na_sm_addr_resolve_open(t) ==
    /\ fault = "none"
    /\ thr[t].pc = "resolve"
    /\ LET a == thr[t].na_sm_addr
       IN  /\ thr' = [thr EXCEPT ![t].pc = "reserve",
                                 ![t].entry_status = addr[a].status]
           /\ IF addr[a].shared_region = NULL
              THEN /\ region' = [region EXCEPT !["peer"].mapped = TRUE]
                   /\ addr' = [addr EXCEPT ![a].shared_region = "peer"]
              ELSE UNCHANGED <<region, addr>>
    /\ UNCHANGED <<addrRest, addr_map, poll_addr_list, endpoint, fault>>

\* What an address holds of the resources na_sm_addr_resolve acquires, in
\* the order in which the function acquires them.
HeldResources(A) ==
    (IF A.shared_region # NULL THEN <<"region">> ELSE <<>>)
        \o (IF NA_SM_ADDR_RESERVED \in A.status THEN <<"pair">> ELSE <<>>)
        \o (IF A.tx_notify > 0 THEN <<"tx_notify">> ELSE <<>>)
        \o (IF A.rx_notify > 0 THEN <<"rx_notify">> ELSE <<>>)

\* The error path of na_sm_addr_resolve, taken with the value ret on the
\* address whose fields are A by then: with a region attached and RESERVED
\* set the queue pair is released, RESERVED cleared and the descriptors
\* destroyed (tx, then rx); then the region is closed and shared_region set
\* to NULL.  tx_queue and rx_queue, CMD_PUSHED and the registration of
\* rx_notify in the poll set are left as they are.  On NA_AGAIN the caller
\* parks the op (na_sm_op_retry); on another error a send returns it, and
\* na_sm_process_retries goes on to the copy buffers of the NULL
\* shared_region.
ResolveError(t, ret, A) ==
    LET a == thr[t].na_sm_addr
        reserved == NA_SM_ADDR_RESERVED \in A.status
        unwound ==
            IF A.shared_region = NULL THEN <<>>
            ELSE (IF reserved THEN <<"pair">> ELSE <<>>)
                 \o (IF reserved /\ A.tx_notify > 0
                     THEN <<"tx_notify">> ELSE <<>>)
                 \o (IF reserved /\ A.rx_notify > 0
                     THEN <<"rx_notify">> ELSE <<>>)
                 \o <<"region">>
    IN  /\ thr' = [thr EXCEPT
               ![t].pc = IF ret = "NA_AGAIN" THEN "parked" ELSE "failed",
               ![t].ret = ret,
               ![t].held = HeldResources(A),
               ![t].unwound = unwound]
        /\ fault' = IF ret # "NA_AGAIN" /\ thr[t].retry
                    THEN "null_dereference" ELSE fault
        /\ IF A.shared_region = NULL
           THEN /\ UNCHANGED region
                /\ addr' = [addr EXCEPT ![a] = A]
           ELSE /\ region' = [region EXCEPT
                       !["peer"].pair_reserved =
                           IF reserved THEN @ \ {A.queue_pair_idx} ELSE @,
                       !["peer"].mapped = FALSE]
                /\ addr' = [addr EXCEPT
                       ![a] = [A EXCEPT
                                  !.status = @ \ {NA_SM_ADDR_RESERVED},
                                  !.tx_notify = IF reserved THEN -1 ELSE @,
                                  !.rx_notify = IF reserved THEN -1 ELSE @,
                                  !.shared_region = NULL]]

\* na_sm_addr_resolve: with RESERVED clear, reserve a queue pair, set
\* RESERVED and point tx_queue and rx_queue into the pair.
na_sm_addr_resolve_reserve(t) ==
    /\ fault = "none"
    /\ thr[t].pc = "reserve"
    /\ LET a == thr[t].na_sm_addr
           idx == LowestFree(region["peer"].pair_reserved, NA_SM_MAX_PEERS)
       IN  IF NA_SM_ADDR_RESERVED \in addr[a].status
           THEN /\ thr' = [thr EXCEPT ![t].pc = "push"]
                /\ UNCHANGED <<region, addr, fault>>
           ELSE IF addr[a].shared_region = NULL
           THEN /\ fault' = "null_dereference"
                /\ UNCHANGED <<thr, region, addr>>
           ELSE IF idx = -1
           THEN ResolveError(t, "NA_AGAIN", addr[a])
           ELSE /\ region' = [region EXCEPT
                       !["peer"].pair_reserved = @ \cup {idx}]
                /\ addr' = [addr EXCEPT
                       ![a].queue_pair_idx = idx,
                       ![a].status = @ \cup {NA_SM_ADDR_RESERVED},
                       ![a].tx_queue = [region |-> "peer", idx |-> idx]]
                /\ thr' = [thr EXCEPT ![t].pc = "push"]
                /\ UNCHANGED fault
    /\ UNCHANGED <<addrRest, addr_map, poll_addr_list, endpoint>>

\* na_sm_addr_resolve: with CMD_PUSHED clear, push NA_SM_RESERVED onto the
\* peer's command queue and set CMD_PUSHED; a full queue is NA_AGAIN.
na_sm_addr_resolve_push(t) ==
    /\ fault = "none"
    /\ thr[t].pc = "push"
    /\ LET a == thr[t].na_sm_addr
           next == IF endpoint.poll_set THEN "events" ELSE "list_insert"
       IN  IF NA_SM_ADDR_CMD_PUSHED \in addr[a].status
           THEN /\ thr' = [thr EXCEPT ![t].pc = next]
                /\ UNCHANGED <<region, addr, fault>>
           ELSE IF addr[a].shared_region = NULL
           THEN /\ fault' = "null_dereference"
                /\ UNCHANGED <<thr, region, addr>>
           ELSE IF CmdQueueFull(region["peer"].cmd_queue)
           THEN ResolveError(t, "NA_AGAIN", addr[a])
           ELSE /\ region' = [region EXCEPT !["peer"].cmd_queue =
                       Append(@, CmdHdr("NA_SM_RESERVED",
                                        addr[a].queue_pair_idx))]
                /\ addr' = [addr EXCEPT
                       ![a].status = @ \cup {NA_SM_ADDR_CMD_PUSHED}]
                /\ thr' = [thr EXCEPT ![t].pc = next]
                /\ UNCHANGED fault
    /\ UNCHANGED <<addrRest, addr_map, poll_addr_list, endpoint>>

\* What the system calls of the events part of na_sm_addr_resolve can
\* answer: all succeed, eventfd fails for tx or for rx, hg_poll_add fails,
\* sendmsg fails with ETOOMANYREFS or with another error.
EventOutcomes ==
    {"ok", "tx_fail", "rx_fail", "register_fail", "send_again", "send_fail"}

\* The most system calls that fail in a run (ETOOMANYREFS not counted).
MaxFailures == 1

\* na_sm_addr_resolve with a poll set: create the tx and rx descriptors
\* the address does not have yet, register rx_notify in the poll set and,
\* with RESOLVED clear, send the command header with the two descriptors
\* (na_sm_addr_event_send).  On ETOOMANYREFS the function returns NA_AGAIN
\* at once; every other failure goes to the error path.
na_sm_addr_resolve_events(t, out) ==
    /\ fault = "none"
    /\ thr[t].pc = "events"
    /\ LET a == thr[t].na_sm_addr
           A == addr[a]
           cmd_hdr == CmdHdr("NA_SM_RESERVED", A.queue_pair_idx)
           create_tx == A.tx_notify < 0
           create_rx == A.rx_notify < 0
           send == NA_SM_ADDR_RESOLVED \notin A.status
           \* the address after the creations that came before the failure
           A1 == [A EXCEPT !.tx_notify = IF create_tx THEN 1 ELSE @]
           A2 == [A1 EXCEPT !.rx_notify = IF create_rx THEN 2 ELSE @]
           registered == IF create_rx
                         THEN endpoint.registered \cup {a}
                         ELSE endpoint.registered
           failed == [endpoint EXCEPT !.failures = @ + 1]
       IN  /\ out = "tx_fail" => create_tx
           /\ out \in {"rx_fail", "register_fail"} => create_rx
           /\ out \in {"send_again", "send_fail"} => send
           /\ out \in {"tx_fail", "rx_fail", "register_fail", "send_fail"} =>
                  endpoint.failures < MaxFailures
           /\ IF out = "tx_fail"
              THEN ResolveError(t, "NA_NOMEM", A) /\ endpoint' = failed
              ELSE IF out = "rx_fail"
              THEN ResolveError(t, "NA_NOMEM", A1) /\ endpoint' = failed
              ELSE IF out = "register_fail"
              THEN ResolveError(t, "NA_NOMEM", A2) /\ endpoint' = failed
              ELSE IF out = "send_fail"
              THEN /\ ResolveError(t, "NA_NOENTRY", A2)
                   /\ endpoint' = [failed EXCEPT !.registered = registered]
              ELSE IF out = "send_again"
              THEN /\ thr' = [thr EXCEPT ![t].pc = "parked",
                                         ![t].ret = "NA_AGAIN",
                                         ![t].held = HeldResources(A2),
                                         ![t].unwound = <<>>]
                   /\ addr' = [addr EXCEPT ![a] = A2]
                   /\ endpoint' = [endpoint EXCEPT !.registered = registered]
                   /\ UNCHANGED <<region, fault>>
              ELSE /\ thr' = [thr EXCEPT ![t].pc = "list_insert"]
                   /\ addr' = [addr EXCEPT ![a] = A2]
                   /\ endpoint' = [endpoint EXCEPT
                          !.registered = registered,
                          !.sock = IF send THEN Append(@, cmd_hdr) ELSE @]
                   /\ UNCHANGED <<region, fault>>
    /\ UNCHANGED <<addrRest, addr_map, poll_addr_list>>

\* A send whose resolution failed with an error other than NA_AGAIN has
\* returned it (its error path gives the reference back); the caller posts
\* the send again.
na_sm_msg_send_failed(t) ==
    /\ fault = "none"
    /\ thr[t].pc = "failed"
    /\ addr' = [addr EXCEPT ![thr[t].na_sm_addr].ref_count = @ - 1]
    /\ thr' = [thr EXCEPT ![t].pc = "send"]
    /\ UNCHANGED <<addrRest, addr_map, poll_addr_list, region, endpoint,
                   fault>>

\* The end of na_sm_addr_resolve: set RESOLVED and insert the address at
\* the head of the poll list.
na_sm_addr_resolve_insert(t) ==
    /\ fault = "none"
    /\ thr[t].pc = "list_insert"
    /\ LET a == thr[t].na_sm_addr
       IN  /\ addr' = [addr EXCEPT
                  ![a].status = @ \cup {NA_SM_ADDR_RESOLVED}]
           /\ poll_addr_list' = <<a>> \o poll_addr_list
    /\ thr' = [thr EXCEPT ![t].pc = "buf", ![t].ret = "NA_SUCCESS"]
    /\ UNCHANGED <<addrRest, addr_map, region, endpoint, fault>>

\* na_sm_addr_release on the address whose fields are A: the resources it
\* releases, in the order in which it releases them.  An unexpected address
\* gives its queue pair back; a looked-up address sends NA_SM_RELEASED (on
\* the socket with a poll set, errors ignored; else on the peer's command
\* queue, where a full queue ends the function with NA_AGAIN) and closes the
\* region.  Then, for both, tx_notify is destroyed and rx_notify taken out
\* of the poll set and destroyed.
na_sm_addr_release_steps(A, poll_set, full) ==
    LET descriptors ==
            (IF A.tx_notify > 0 THEN <<"tx_notify">> ELSE <<>>)
                \o (IF A.rx_notify > 0 THEN <<"rx_notify">> ELSE <<>>)
    IN  IF A.unexpected
        THEN <<"pair">> \o descriptors
        ELSE IF ~poll_set /\ full
        THEN <<>>
        ELSE <<"region">> \o descriptors

\* na_sm_endpoint_close, its loop over the poll list, called while no
\* thread is inside a call: the first address is taken off the list and
\* destroyed (na_sm_addr_destroy: na_sm_addr_release, then free) whatever
\* its reference count; when na_sm_addr_release fails the address is not
\* freed and the close returns the error.  An address that was inserted
\* twice is its own successor in the list, and the loop goes on with the
\* freed address.  na_sm_addr_destroy leaves out na_sm_addr_release for an
\* address without a region.
na_sm_endpoint_close_addrs ==
    /\ fault = "none"
    /\ endpoint.state = "open"
    /\ \A t \in Threads : thr[t].pc \in {"idle", "buf", "parked"}
    /\ poll_addr_list # <<>>
    /\ LET a == Head(poll_addr_list)
           A == addr[a]
           full == CmdQueueFull(region["peer"].cmd_queue)
           release == A.shared_region # NULL
           again == release /\ ~endpoint.poll_set /\ full
           steps == IF release
                    THEN na_sm_addr_release_steps(A, endpoint.poll_set, full)
                    ELSE <<>>
           cmd_hdr == CmdHdr("NA_SM_RELEASED", A.queue_pair_idx)
       IN  /\ poll_addr_list' = Tail(poll_addr_list)
           /\ endpoint' = [endpoint EXCEPT
                  !.state = "closed",
                  !.held = HeldResources(A),
                  !.released = steps,
                  !.sock = IF release /\ endpoint.poll_set
                           THEN Append(@, cmd_hdr) ELSE @,
                  !.registered = IF release /\ A.rx_notify > 0
                                 THEN @ \ {a} ELSE @]
           /\ region' = [region EXCEPT
                  !["peer"].cmd_queue =
                      IF release /\ ~endpoint.poll_set /\ ~full
                      THEN Append(@, cmd_hdr) ELSE @,
                  !["peer"].mapped = IF release /\ ~again THEN FALSE ELSE @]
           /\ addr' = IF again THEN addr
                      ELSE [addr EXCEPT ![a] =
                               [NoAddr EXCEPT !.state = "freed",
                                              !.ref_count = A.ref_count]]
           /\ fault' = IF ~again /\ Len(poll_addr_list) > 1
                       THEN "use_after_free" ELSE fault
    /\ UNCHANGED <<addrRest, thr, addr_map>>

\* The peer's na_sm_progress_cmd_queue: it pops one command.  The peer is
\* slow: it gets round to its command queue only when the queue is full.
PeerProgressCmd ==
    /\ fault = "none"
    /\ region["peer"].exists
    /\ CmdQueueFull(region["peer"].cmd_queue)
    /\ region' = [region EXCEPT !["peer"].cmd_queue = Tail(@)]
    /\ UNCHANGED <<addrRest, thr, addr, addr_map, poll_addr_list, endpoint,
                   fault>>

\* The thread is inside na_sm_addr_resolve, which it entered on an address
\* whose RESOLVED bit was set.
ResolvingResolved(t) ==
    \/ /\ thr[t].pc = "resolve"
       /\ NA_SM_ADDR_RESOLVED \in addr[thr[t].na_sm_addr].status
    \/ /\ thr[t].pc \in {"reserve", "push", "events", "list_insert"}
       /\ NA_SM_ADDR_RESOLVED \in thr[t].entry_status

\* C11: a call of na_sm_addr_resolve on an address whose RESOLVED bit is set
\* changes nothing: no step of the call changes an address, the peer's
\* region (queue pairs, command queue), the datagrams sent or the poll list.
C11_ResolveIdempotent ==
    [][\A t \in Threads :
          (ResolvingResolved(t) /\ thr'[t] # thr[t]) =>
              UNCHANGED <<addr, region, endpoint, poll_addr_list>>]_vars

\* C14: at most one address is created for the peer's key, and every thread
\* that has looked the peer up has got the address the map holds.
C14_OneAddressPerKey ==
    /\ Cardinality({a \in AddrIds : addr[a].state # "unalloc"}) <= 1
    /\ \A t \in Threads :
           thr[t].pc \notin {"idle", "map_insert"} =>
               thr[t].na_sm_addr = addr_map /\ addr_map # NULL

\* Two look-ups have returned, one of them after it found the map empty and
\* then, under the write lock, the entry of the other.
C14_Witness ==
    /\ \A t \in Threads : thr[t].pc \notin {"idle", "map_insert", "incr"}
    /\ \E t \in Threads : thr[t].ret = "NA_EXIST"

\* The two queue pointers of the address point into a queue pair that is
\* reserved in a mapped region.
QueuesValid(A) ==
    /\ A.tx_queue.region # NULL
    /\ region[A.tx_queue.region].mapped
    /\ A.tx_queue.idx \in region[A.tx_queue.region].pair_reserved

\* Some thread is inside na_sm_addr_resolve on the address.
Resolving(a) ==
    \E t \in Threads :
        /\ thr[t].na_sm_addr = a
        /\ thr[t].pc \in {"reserve", "push", "events", "list_insert"}

\* C18: the queue pointers of every address are valid exactly when its
\* RESOLVED bit is set; stated here only of the addresses that no call of
\* na_sm_addr_resolve is working on, that is after every resolution, failed
\* or partial ones included, has returned.
C18_QueuesValidIffResolved ==
    \A a \in AddrIds :
        (addr[a].state = "live" /\ ~Resolving(a)) =>
            (QueuesValid(addr[a]) <=> NA_SM_ADDR_RESOLVED \in addr[a].status)

\* The commands of this endpoint on a command queue.
SelfCmds(q) == SelectSeq(q, LAMBDA c : c.pid = "self")

\* C23: a resolved address has been announced through one channel, chosen
\* by the progress mode: with a poll set the command header went out on the
\* socket with the two descriptors and nothing was pushed onto the peer's
\* command queue; without one the header was pushed onto the command queue,
\* no descriptor was created and nothing was sent on the socket.
C23_OneChannel ==
    \A a \in AddrIds :
        (addr[a].state = "live" /\ NA_SM_ADDR_RESOLVED \in addr[a].status) =>
            IF endpoint.poll_set
            THEN /\ endpoint.sock # <<>>
                 /\ addr[a].tx_notify > 0 /\ addr[a].rx_notify > 0
                 /\ SelfCmds(region["peer"].cmd_queue) = <<>>
            ELSE /\ SelfCmds(region["peer"].cmd_queue) # <<>>
                 /\ addr[a].tx_notify = -1 /\ addr[a].rx_notify = -1
                 /\ endpoint.sock = <<>>

\* The NA_SM_RESERVED announcements of this endpoint that take effect at
\* the peer, which runs in the same progress mode: the headers sent on the
\* socket with a poll set, the headers on the command queue without one.
Announced ==
    SelectSeq(IF endpoint.poll_set
              THEN endpoint.sock
              ELSE SelfCmds(region["peer"].cmd_queue),
              LAMBDA c : c.type = "NA_SM_RESERVED")

\* C24: once an op has been parked on NA_AGAIN and the drain has re-entered
\* the resolution, the address holds at most one queue pair of the peer's
\* region and at most one announcement takes effect at the peer; when the
\* address is resolved and no call is working on it, there is exactly one
\* announcement and it carries the queue pair index of the address.
C24_OneAnnouncement ==
    (\E t \in Threads : thr[t].retry) =>
        /\ Cardinality(region["peer"].pair_reserved \ {0}) <= 1
        /\ Len(Announced) <= 1
        /\ \A a \in AddrIds :
               (/\ addr[a].state = "live"
                /\ NA_SM_ADDR_RESOLVED \in addr[a].status
                /\ ~Resolving(a)) =>
                   /\ Len(Announced) = 1
                   /\ Announced[1].pair_idx = addr[a].queue_pair_idx
                   /\ region["peer"].pair_reserved \ {0} =
                          {addr[a].queue_pair_idx}

\* The same of the runs in which one thread alone uses the address.
C24_OneAnnouncementAlone ==
    (\A t \in Threads : t # 1 => thr[t].pc = "idle") => C24_OneAnnouncement

\* An op was parked, the drain re-entered the resolution and resolved the
\* address, no other thread having touched it.
C24_Witness ==
    /\ \A t \in Threads : t # 1 => thr[t].pc = "idle"
    /\ thr[1].retry
    /\ thr[1].pc = "buf"
    /\ NA_SM_ADDR_RESOLVED \in addr["lk"].status

\* The sequence q backwards.
Reversed(q) == [k \in 1..Len(q) |-> q[Len(q) + 1 - k]]

\* C25: when a call of na_sm_addr_resolve has failed (with NA_AGAIN or with
\* another error), no other thread working on the address, the address
\* holds none of the resources of a resolution: no descriptor, and none
\* registered in the poll set, no queue pair of the peer's region, no mapped
\* region and no region pointer; and what the address held was released in
\* the reverse of the order in which it was acquired.
C25_UnwoundInReverse ==
    (/\ \A t \in Threads : t # 1 => thr[t].pc = "idle"
     /\ thr[1].pc \in {"parked", "failed"}) =>
        /\ HeldResources(addr[thr[1].na_sm_addr]) = <<>>
        /\ thr[1].na_sm_addr \notin endpoint.registered
        /\ region["peer"].pair_reserved = {0}
        /\ ~region["peer"].mapped
        /\ thr[1].unwound = Reversed(thr[1].held)

\* C25, the state the error path leaves, without the order and without the
\* poll set: after a failure that went through the error path the address
\* holds nothing.
C25_ErrorPathReleasesAll ==
    (/\ \A t \in Threads : t # 1 => thr[t].pc = "idle"
     /\ thr[1].pc \in {"parked", "failed"}
     /\ thr[1].unwound # <<>>) =>
        /\ HeldResources(addr[thr[1].na_sm_addr]) = <<>>
        /\ region["peer"].pair_reserved = {0}
        /\ ~region["peer"].mapped

ReleaseRank(x) ==
    IF x = "pair" THEN 1
    ELSE IF x \in {"tx_notify", "rx_notify"} THEN 2 ELSE 3

\* C27: an address that is taken off the poll list and released gives up
\* its queue-pair slot first, then its notification descriptors, and the
\* mapped region last, and nothing it held of descriptors and region is
\* left behind.
C27_ReleasedInOrder ==
    endpoint.state = "closed" =>
        /\ \A i, j \in DOMAIN endpoint.released :
               i < j => ReleaseRank(endpoint.released[i])
                            <= ReleaseRank(endpoint.released[j])
        /\ \A k \in DOMAIN endpoint.held :
               endpoint.held[k] # "pair" =>
                   \E i \in DOMAIN endpoint.released :
                       endpoint.released[i] = endpoint.held[k]

\* C27, the part of the claim that holds of a looked-up address: unless
\* the NA_SM_RELEASED command could not be pushed, everything the address
\* held of descriptors and region is released, the region first.
C27_ReleasedAll ==
    (endpoint.state = "closed" /\ endpoint.released # <<>>) =>
        /\ endpoint.released =
               <<"region">> \o SelectSeq(endpoint.held,
                                  LAMBDA x : x \in {"tx_notify", "rx_notify"})
        /\ ~region["peer"].mapped

\* C27, a RELEASED command received: the address it matches loses one
\* reference; it is taken off the poll list and freed exactly when that was
\* the last one, and then, if it is an unexpected address, its queue pair,
\* reserved until then, is available again.
C27_ReceivedReleased ==
    [][(/\ prog.pc = "cmd" /\ prog' # prog
        /\ region["own"].cmd_queue # <<>>
        /\ Head(region["own"].cmd_queue).type = "NA_SM_RELEASED"
        /\ ReleasedMatch(poll_addr_list, Head(region["own"].cmd_queue))
               # NULL) =>
           LET a == ReleasedMatch(poll_addr_list,
                                  Head(region["own"].cmd_queue))
               idx == addr[a].queue_pair_idx
           IN  /\ addr'[a].ref_count = addr[a].ref_count - 1
               /\ addr'[a].state = "freed" <=> addr[a].ref_count = 1
               /\ addr'[a].state = "freed" =>
                      poll_addr_list' = ListRemove(poll_addr_list, a)
               /\ addr'[a].state # "freed" =>
                      /\ poll_addr_list' = poll_addr_list
                      /\ region'["own"].pair_reserved =
                             region["own"].pair_reserved
               /\ (addr'[a].state = "freed" /\ addr[a].unexpected) =>
                      /\ idx \in region["own"].pair_reserved
                      /\ region'["own"].pair_reserved =
                             region["own"].pair_reserved \ {idx}]_vars

\* The positions of the expected op queue whose op was posted for address a
\* with the tag.
ExpectedHits(a, tag) ==
    {k \in 1..Len(expected_op_queue) :
        /\ op[expected_op_queue[k]].na_sm_addr = a
        /\ op[expected_op_queue[k]].tag = tag}

\* The sequence q without its k-th element.
WithoutAt(q, k) == [i \in 1..(Len(q) - 1) |-> IF i < k THEN q[i] ELSE q[i + 1]]

\* C28: an expected message popped from the rx ring of an address takes the
\* oldest posted expected receive with that address and the message's tag
\* off the queue and completes it, once, with the size the header carries,
\* and touches no other op; when no posted receive matches, no op changes,
\* nothing is completed and the progress call ends there with the error.
C28_ExpectedMatchesOldest ==
    [][/\ (/\ prog.pc = "poll" /\ prog' # prog
           /\ addr[prog.cur].state = "live"
           /\ region[addr[prog.cur].shared_region][RxRing(addr[prog.cur])]
                  # <<>>
           /\ Head(region[addr[prog.cur].shared_region]
                          [RxRing(addr[prog.cur])]).type
                  = "NA_CB_SEND_EXPECTED") =>
              LET hdr == Head(region[addr[prog.cur].shared_region]
                                    [RxRing(addr[prog.cur])])
                  hits == ExpectedHits(prog.cur, hdr.tag)
                  k == CHOOSE i \in hits : \A j \in hits : i <= j
              IN  /\ completion_queue' = completion_queue
                  /\ IF hits = {}
                     THEN /\ prog'.pc = "idle"
                          /\ op' = op
                          /\ expected_op_queue' = expected_op_queue
                     ELSE /\ prog'.pc = "expected"
                          /\ prog'.op = expected_op_queue[k]
                          /\ prog'.hdr = hdr
                          /\ expected_op_queue' =
                                 WithoutAt(expected_op_queue, k)
                          /\ \A o \in Ops :
                                 o # expected_op_queue[k] => op'[o] = op[o]
       /\ (prog.pc = "expected" /\ prog' # prog /\ fault' = "none") =>
              /\ op'[prog.op].actual_buf_size = prog.hdr.buf_size
              /\ NA_SM_OP_COMPLETED \in op'[prog.op].status
              /\ op'[prog.op].ncomplete = 1
              /\ completion_queue' = Append(completion_queue, prog.op)
              /\ expected_op_queue' = expected_op_queue
              /\ \A o \in Ops : o # prog.op => op'[o] = op[o]]_vars

\* C28, its case: an expected receive has been completed by a message
\* while a younger receive with the same address and tag stays posted.
C28_Witness ==
    \E o \in Ops :
        /\ op[o].type = "NA_CB_RECV_EXPECTED"
        /\ NA_SM_OP_COMPLETED \in op[o].status
        /\ op[o].actual_buf_size = MsgSize
        /\ completion_queue = <<o>>
        /\ \E p \in Ops :
               /\ expected_op_queue = <<p>>
               /\ op[p].na_sm_addr = op[o].na_sm_addr
               /\ op[p].tag = op[o].tag

\* C28, the other case: the progress call has ended on an expected message
\* that no posted receive matched, a receive with another tag and one for
\* another address being posted.
C28_WitnessNoMatch ==
    /\ prog.pc = "idle"
    /\ Len(expected_op_queue) = 2
    /\ region["own"].tx_queue = <<>>
    /\ completion_queue = <<>>
    /\ \E o \in Ops : op[o].na_sm_addr = "lk"
    /\ \E o \in Ops : op[o].na_sm_addr = "ux" /\ op[o].tag # MsgTag
    /\ endpoint.posts = 2

\* The fields of an op that the code keeps (ncomplete, hist and parked are
\* kept for the checks only).
OpFields(O) == [O EXCEPT !.ncomplete = 0, !.hist = "none", !.parked = FALSE]

\* The step releases op o (NA_Trigger runs its callback and na_sm_release)
\* or posts it again.
ReleasedOrPosted(o) ==
    \/ endpoint'.posts > endpoint.posts
    \/ /\ completion_queue # <<>>
       /\ Head(completion_queue) = o
       /\ completion_queue' = Tail(completion_queue)

\* C17: once COMPLETED is set in an op's status, no field of the op changes
\* until the op is released or posted again.
C17_CompletionMonotonic ==
    [][\A o \in Ops :
          (/\ NA_SM_OP_COMPLETED \in op[o].status
           /\ OpFields(op'[o]) # OpFields(op[o]))
              => ReleasedOrPosted(o)]_vars

C20_PollListCloseBusy ==
    [][(poll_addr_list # <<>> /\ na_sm_endpoint_close) =>
           /\ endpoint'.ret = "NA_BUSY"
           /\ endpoint'.state = "open"
           /\ \A a \in AddrIds : Linked(poll_addr_list, a) => addr'[a] = addr[a]
           /\ poll_addr_list' = poll_addr_list
           /\ region' = region]_vars

(***************************************************************************)
(* SpecSend: the sends of Spec on an endpoint that has been sending to the *)
(* peer for a while.  The address "lk" is looked up and resolved, the      *)
(* peer has taken the NA_SM_RESERVED command, and SendInitSent earlier     *)
(* sends, completed and triggered, still have their headers on the ring    *)
(* and their copy buffers reserved.                                        *)
(***************************************************************************)

\* How many earlier messages the peer has not received yet.
SendInitSent == {0, 1, NA_SM_NUM_BUFS - 1}

\* The headers of the n earlier messages, in copy buffers 1..n.
SentRing(n) ==
    [k \in 1..n |-> MsgHdr("NA_CB_SEND_UNEXPECTED", k, MsgSize, MsgTag)]

\* Buffers 1..n hold the earlier messages, other processes hold the rest of
\* 1..(NA_SM_NUM_BUFS - 1); buffer 0 is free or held by another process.
\* With resolved false the endpoint has not sent to the peer yet: "lk" is
\* looked up only, and the peer's command queue is full of the commands of
\* other clients.
SendInit ==
    \E n \in SendInitSent, held0 \in BOOLEAN, resolved \in BOOLEAN :
        LET h0 == [addr |-> [a \in AddrIds |->
                                IF a = "lk"
                                THEN [na_sm_addr_create(PeerPid, FALSE)
                                         EXCEPT !.ref_count = 2]
                                ELSE NoAddr],
                   region |-> [r \in Regions |-> RegionInit(r = "own")],
                   list |-> <<>>,
                   op |-> [o \in Ops |-> NewOp],
                   cq |-> <<>>]
            h1 == IF resolved THEN na_sm_addr_resolve(h0, "lk") ELSE h0
        IN  /\ resolved \/ n = 0
            /\ addr = h1.addr
            /\ region = [h1.region EXCEPT
                   !["peer"].cmd_queue =
                       IF resolved THEN <<>>
                       ELSE [k \in 1..((NA_SM_MAX_PEERS * 2) - 1) |-> OtherCmd],
                   !["peer"].tx_queue = SentRing(n),
                   !["peer"].copy_reserved =
                       IF held0 THEN AllBufs ELSE AllBufs \ {0}]
            /\ poll_addr_list = h1.list
            /\ op = h1.op
            /\ completion_queue = <<>>
            /\ unexpected_op_queue = <<>>
            /\ expected_op_queue = <<>>
            /\ retry_op_queue = <<>>
            /\ unexpected_msg_queue = <<>>
            /\ addr_map = "lk"
            /\ handles = [a \in AddrIds |-> IF a = "lk" THEN 1 ELSE 0]
            /\ prog = ProgIdle
            /\ canc = CancIdle
            /\ endpoint = [state |-> "open", ret |-> "NONE", peer |-> "none",
                           peer_pair |-> 0, posts |-> 0]
            /\ fault = "none"

\* The peer finalizes: its region is removed (na_sm_region_close with
\* remove) and can no longer be opened; those who have it mapped keep it.
PeerExit ==
    /\ Running
    /\ region["peer"].exists
    /\ region' = [region EXCEPT !["peer"].exists = FALSE]
    /\ UNCHANGED <<opVars, addrVars, prog, canc, endpoint, fault>>

\* A send to address a is parked on the retry queue.
SendParked(a) ==
    \E k \in 1..Len(retry_op_queue) : op[retry_op_queue[k]].na_sm_addr = a

\* The step is a post (na_sm_msg_send) of op o.
PostOf(o) == endpoint'.posts > endpoint.posts /\ op'[o] # op[o]

\* C12: a send never puts its header on the ring of an address while an
\* earlier send to that address is still parked on the retry queue, so the
\* peer receives the messages in the order of the posts.
C12_FifoWithParked ==
    [][\A o \in Ops :
          (/\ PostOf(o)
           /\ Len(region'["peer"].tx_queue) > Len(region["peer"].tx_queue))
              => ~SendParked(op'[o].na_sm_addr)]_vars

\* C15: a post of a send that meets a retryable condition leaves the op
\* parked on the retry queue: after every post the op is either completed
\* (on the completion queue) or on the retry queue, and a parked op leaves
\* the retry queue only for the completion queue.
C15_RetryableParks ==
    [][\A o \in Ops :
          /\ PostOf(o) =>
                 Linked(retry_op_queue', o) \/ Linked(completion_queue', o)
          /\ (prog.pc = "retry_post" /\ prog.op = o
                 /\ prog'.pc # "retry_post") =>
                 Linked(completion_queue', o)]_vars

\* C21: the retry drain takes the parked ops in queue order (the op it works
\* on is the head, and an op leaves the queue from the head), and when the
\* head op gets NA_AGAIN from na_sm_addr_resolve or from na_sm_buf_reserve
\* the drain ends there without an error: the retry queue, the ops (the head
\* still QUEUED) and the completion queue are as they were.
C21_DrainStopsAtHead ==
    [][/\ prog'.pc = "retry_reserve" =>
              retry_op_queue' # <<>> /\ prog'.op = Head(retry_op_queue')
       /\ Len(retry_op_queue') < Len(retry_op_queue) =>
              retry_op_queue' = Tail(retry_op_queue)
       /\ (prog.pc = "retry_reserve" /\ prog'.pc = "idle") =>
              /\ retry_op_queue' = retry_op_queue
              /\ Head(retry_op_queue) = prog.op
              /\ NA_SM_OP_QUEUED \in op'[prog.op].status
              /\ op' = op
              /\ completion_queue' = completion_queue
              /\ fault' = "none"]_vars

\* The drain has sent the op parked first and has come to the second one,
\* for which no copy buffer is free.
C21_Witness ==
    /\ prog.pc = "retry_reserve"
    /\ retry_op_queue = <<prog.op>>
    /\ NA_SM_ADDR_RESOLVED \in addr["lk"].status
    /\ region["peer"].copy_reserved = AllBufs
    /\ \E o \in Ops : /\ o # prog.op
                       /\ op[o].parked
                       /\ NA_SM_OP_COMPLETED \in op[o].status

\* The drain has come to a head op whose address cannot be resolved yet (the
\* command queue of the peer is full) while a second op waits behind it.
C21_WitnessResolve ==
    /\ prog.pc = "retry_reserve"
    /\ Len(retry_op_queue) = 2
    /\ NA_SM_ADDR_RESOLVED \notin addr["lk"].status
    /\ na_sm_addr_resolve_ret(Heap, "lk") = "NA_AGAIN"

(***************************************************************************)
(* SpecProg: the loop of na_sm_progress on an endpoint without a poll set. *)
(* thr = [pc, timeout, remaining, progressed, work, ret, rx, cmd, retry,    *)
(* polls, drains]: timeout and remaining are in milliseconds; rx, cmd and  *)
(* retry are the numbers of headers on the rx ring of the polled address,  *)
(* of commands on the command queue and of parked sends that can go out.   *)
(* The handlers are reduced to what they take off their queue and what     *)
(* they report in progressed; work counts what the call has handled, polls *)
(* and drains the calls of na_sm_poll and of na_sm_process_retries it has  *)
(* made.                                                                   *)
(***************************************************************************)

\* Bounds of the progress loop: the longest timeout, the longest time one
\* iteration takes, the most entries waiting on a queue, the most entries
\* one call gets to handle, the most iterations that take no measurable
\* time.
MaxTimeout == 3
MaxElapsed == 2
MaxQueued == 1
MaxWork == 3
MaxPolls == 2

ProgInit ==
    thr \in [pc : {"idle"}, timeout : {0}, remaining : {0},
             progressed : {FALSE}, work : {0}, ret : {"NONE"},
             rx : 0..MaxQueued, cmd : 0..MaxQueued, retry : 0..MaxQueued,
             polls : {0}, drains : {0}]

\* na_sm_progress(timeout) is entered: remaining = timeout / 1000.0.
na_sm_progress_enter(timeout) ==
    /\ thr.pc \in {"idle", "returned"}
    /\ thr' = [thr EXCEPT !.pc = "poll", !.timeout = timeout,
                          !.remaining = timeout, !.progressed = FALSE,
                          !.work = 0, !.ret = "NONE", !.polls = 0,
                          !.drains = 0]

\* na_sm_progress_rx_queue(poll_addr, &progressed_rx): NA_TRUE after a
\* header was popped and processed.
progressed_rx(t) == t.rx > 0

\* na_sm_progress_cmd_queue(&progressed_cmd): the flag starts NA_FALSE, is
\* set to NA_FALSE when the queue is empty and is not written after a
\* command was popped and processed.
progressed_cmd(t) == FALSE

\* One iteration, na_sm_poll: one header of the rx ring, then one command.
\* With bad the header popped is one na_sm_progress_rx_queue fails on (an
\* expected message that no posted receive matches, an unknown type):
\* na_sm_poll returns NA_INVALID_ARG and na_sm_progress returns it at once
\* (goto error).
na_sm_poll(bad) ==
    /\ thr.pc = "poll"
    /\ bad => thr.rx > 0
    /\ thr' = IF bad
              THEN [thr EXCEPT !.pc = "returned", !.ret = "NA_INVALID_ARG",
                               !.rx = @ - 1, !.polls = @ + 1]
              ELSE [thr EXCEPT
                       !.pc = "retries",
                       !.progressed = progressed_rx(thr) \/ progressed_cmd(thr),
                       !.rx = IF @ > 0 THEN @ - 1 ELSE @,
                       !.cmd = IF @ > 0 THEN @ - 1 ELSE @,
                       !.work = @ + (IF thr.rx > 0 THEN 1 ELSE 0)
                                  + (IF thr.cmd > 0 THEN 1 ELSE 0),
                       !.polls = @ + 1]

\* A plausible slip: the return on progressed placed before the drain.
na_sm_process_retries_unless_progressed ==
    /\ thr.pc = "retries"
    /\ thr' = IF thr.progressed
              THEN [thr EXCEPT !.pc = "check"]
              ELSE [thr EXCEPT !.pc = "check", !.retry = 0,
                               !.work = @ + thr.retry, !.drains = @ + 1]

\* na_sm_process_retries: every parked send that can go out is posted and
\* completed; the function has no progressed argument.
na_sm_process_retries ==
    /\ thr.pc = "retries"
    /\ thr' = [thr EXCEPT !.pc = "check", !.retry = 0, !.work = @ + thr.retry,
                          !.drains = @ + 1]

\* The end of the iteration: return NA_SUCCESS if progressed; else take the
\* time of the iteration off remaining (only if timeout is not 0) and go
\* round while (int) (remaining * 1000.0) > 0, else return NA_TIMEOUT.
na_sm_progress_loop(elapsed) ==
    /\ thr.pc = "check"
    /\ elapsed > 0 \/ thr.polls < MaxPolls
    /\ LET remaining == IF thr.timeout # 0
                        THEN thr.remaining - elapsed
                        ELSE thr.remaining
       IN  thr' = IF thr.progressed
                  THEN [thr EXCEPT !.pc = "returned", !.ret = "NA_SUCCESS"]
                  ELSE IF remaining > 0
                  THEN [thr EXCEPT !.pc = "poll", !.remaining = remaining]
                  ELSE [thr EXCEPT !.pc = "returned", !.ret = "NA_TIMEOUT",
                                   !.remaining = remaining]

\* The peer sends a message or a command, or a copy buffer becomes free for
\* a parked send.
PeerPush(queue) ==
    /\ thr[queue] < MaxQueued
    /\ thr.work + thr.rx + thr.cmd + thr.retry < MaxWork
    /\ thr' = [thr EXCEPT ![queue] = @ + 1]

\* C16: a call of na_sm_progress with a nonzero timeout starts every
\* iteration but the first with budget left and nothing handled so far,
\* returns NA_SUCCESS when it has handled something (a message, a command or
\* a parked send) and NA_TIMEOUT only when it has handled nothing and the
\* budget is used up.
C16_ProgressOrTimeout ==
    thr.timeout # 0 =>
        /\ thr.pc = "poll" => thr.work = 0 /\ thr.remaining > 0
        /\ (thr.pc = "returned" /\ thr.ret = "NA_SUCCESS") => thr.work > 0
        /\ (thr.pc = "returned" /\ thr.ret = "NA_TIMEOUT") =>
               thr.work = 0 /\ thr.remaining <= 0
        /\ thr.pc = "returned" =>
               thr.ret \in {"NA_SUCCESS", "NA_TIMEOUT", "NA_INVALID_ARG"}

InitBuf == BufInit /\ QPParked /\ EpParked /\ ThrParked

NextBuf ==
    \/ UNCHANGED <<qpVars, epVars, thr>> /\ \E t \in Threads : na_sm_buf_reserve_call(t)
    \/ UNCHANGED <<qpVars, epVars, thr>> /\ \E t \in Threads : na_sm_buf_reserve_get(t)
    \/ UNCHANGED <<qpVars, epVars, thr>> /\ \E t \in Threads : na_sm_buf_reserve_cas(t)
    \/ UNCHANGED <<qpVars, epVars, thr>> /\ \E t \in Threads :
           \E index \in bthr[t].held : na_sm_buf_release(t, index)

SpecBuf == InitBuf /\ [][NextBuf]_vars

InitQP == QPInit /\ BufParked /\ EpParked /\ ThrParked

NextQP ==
    \/ UNCHANGED <<bufVars, epVars, thr>> /\ \E t \in Threads : na_sm_queue_pair_reserve_call(t)
    \/ UNCHANGED <<bufVars, epVars, thr>> /\ \E t \in Threads : na_sm_queue_pair_reserve_get(t)
    \/ UNCHANGED <<bufVars, epVars, thr>> /\ \E t \in Threads : na_sm_queue_pair_reserve_cas(t)
    \/ UNCHANGED <<bufVars, epVars, thr>> /\ \E t \in Threads :
           \E index \in qthr[t].held : na_sm_queue_pair_release(t, index)

SpecQP == InitQP /\ [][NextQP]_vars

InitHdr == HdrInit /\ BufParked /\ QPParked

NextHdr ==
    \/ na_sm_msg_send_push
    \/ na_sm_msg_queue_pop

SpecHdr == InitHdr /\ [][NextHdr]_vars

InitAddr == AddrInit /\ BufParked /\ QPParked

NextAddr ==
    \/ \E t \in Threads : na_sm_addr_lookup_call(t)
    \/ \E t \in Threads : na_sm_addr_map_insert(t)
    \/ \E t \in Threads : na_sm_addr_lookup_incr(t)
    \/ \E t \in Threads : na_sm_msg_send_check(t)
    \/ \E t \in Threads : na_sm_process_retries_resolved(t)
    \/ \E t \in Threads : na_sm_addr_resolve_open(t)
    \/ \E t \in Threads : na_sm_addr_resolve_reserve(t)
    \/ \E t \in Threads : na_sm_addr_resolve_push(t)
    \/ \E t \in Threads, out \in EventOutcomes :
           na_sm_addr_resolve_events(t, out)
    \/ \E t \in Threads : na_sm_msg_send_failed(t)
    \/ \E t \in Threads : na_sm_addr_resolve_insert(t)
    \/ na_sm_endpoint_close_addrs
    \/ PeerProgressCmd

SpecAddr == InitAddr /\ [][NextAddr]_vars

\* The resolution of the peer's address, attempted in this state, fails with
\* an error other than NA_AGAIN.
ResolveFailsHard ==
    /\ addr["lk"].state = "live"
    /\ NA_SM_ADDR_RESOLVED \notin addr["lk"].status
    /\ na_sm_addr_resolve_ret(Heap, "lk") \notin {"NA_SUCCESS", "NA_AGAIN"}

\* C29, the initial post: a send whose resolution fails with an error that
\* is not retryable leaves the op completed and on no queue, with no
\* completion entry, and gives the address reference back.
C29_PostFailureCompletes ==
    [][\A o \in Ops :
          (PostOf(o) /\ ResolveFailsHard) =>
              /\ op'[o].status = {NA_SM_OP_COMPLETED}
              /\ retry_op_queue' = retry_op_queue
              /\ ~Linked(retry_op_queue', o)
              /\ completion_queue' = completion_queue
              /\ addr'["lk"].ref_count = addr["lk"].ref_count
              /\ fault' = "none"]_vars

\* C29: when the resolution for a send fails with an error that is not
\* retryable, on the post or in the retry drain, the op ends completed and
\* on no queue, its address reference is given back, and the unresolved
\* address is not used.
C29_ResolveFailureCompletes ==
    [][/\ \A o \in Ops :
              (PostOf(o) /\ ResolveFailsHard) =>
                  /\ op'[o].status = {NA_SM_OP_COMPLETED}
                  /\ ~Linked(retry_op_queue', o)
                  /\ addr'["lk"].ref_count = addr["lk"].ref_count
                  /\ fault' = "none"
       /\ (/\ prog.pc = "retry_reserve"
           /\ op[prog.op].na_sm_addr = "lk"
           /\ ResolveFailsHard
           /\ na_sm_process_retries_reserve) =>
              /\ NA_SM_OP_COMPLETED \in op'[prog.op].status
              /\ ~Linked(retry_op_queue', prog.op)
              /\ addr'["lk"].ref_count = addr["lk"].ref_count - 1
              /\ fault' = "none"]_vars

\* C29, the case of the post: a send has failed on the peer's region being
\* gone.
C29_WitnessPost ==
    /\ ~region["peer"].exists
    /\ NA_SM_ADDR_RESOLVED \notin addr["lk"].status
    /\ endpoint.posts > 0
    /\ retry_op_queue = <<>>
    /\ \E o \in Ops : op[o].type = "NA_CB_SEND_UNEXPECTED"
                         /\ op[o].status = {NA_SM_OP_COMPLETED}
                         /\ op[o].ncomplete = 0

(***************************************************************************)
(* SpecExp: expected messages of the peer meet the expected receives the   *)
(* caller has posted.  The run starts after the peer has connected (its    *)
(* unexpected address "ux" is on the poll list) and the caller has looked  *)
(* the peer up ("lk"), holds a handle on both and has posted up to NumOps  *)
(* expected receives, each from one of the two addresses with one of two   *)
(* tags; the peer has pushed one or two expected messages.                 *)
(***************************************************************************)

\* The tags of the receives and of the messages.
ExpTags == {MsgTag, MsgTag + 1}

\* The orders in which the ops can have been posted.
ExpQueues == {<<>>} \cup {<<o>> : o \in Ops}
                 \cup {q \in Ops \X Ops : q[1] # q[2]}

ExpInit ==
    \E q \in ExpQueues,
       from \in [Ops -> {"lk", "ux"}],
       tags \in [Ops -> ExpTags],
       n \in 1..2 :
    \E sent \in [1..n -> ExpTags] :
        LET queued(o) == \E k \in 1..Len(q) : q[k] = o
            refs(a) == Cardinality({o \in Ops : queued(o) /\ from[o] = a})
        IN  /\ op = [o \in Ops |->
                        IF queued(o)
                        THEN [PostedOp("NA_CB_RECV_EXPECTED", from[o], tags[o],
                                       RecvBufSize, 0)
                                 EXCEPT !.status = {NA_SM_OP_QUEUED}]
                        ELSE NewOp]
            /\ expected_op_queue = q
            /\ addr = [a \in AddrIds |->
                          IF a = "lk"
                          THEN [na_sm_addr_create(PeerPid, FALSE) EXCEPT
                                   !.ref_count = 2 + refs("lk")]
                          ELSE [na_sm_addr_create(PeerPid, TRUE) EXCEPT
                                   !.shared_region = "own",
                                   !.queue_pair_idx = 1,
                                   !.tx_queue = [region |-> "own", idx |-> 1],
                                   !.status = {NA_SM_ADDR_RESOLVED},
                                   !.ref_count = 2 + refs("ux")]]
            /\ addr_map = "lk"
            /\ poll_addr_list = <<"ux">>
            /\ handles = [a \in AddrIds |-> 1]
            /\ region = [r \in Regions |->
                   IF r = "own"
                   THEN [RegionInit(TRUE) EXCEPT
                            !.pair_reserved = {0, 1},
                            !.copy_reserved = @ \cup (0..(n - 1)),
                            !.tx_queue =
                                [k \in 1..n |->
                                    MsgHdr("NA_CB_SEND_EXPECTED", k - 1,
                                           MsgSize, sent[k])]]
                   ELSE RegionInit(FALSE)]
            /\ endpoint = [state |-> "open", ret |-> "NONE",
                           peer |-> "connected", peer_pair |-> 1,
                           posts |-> Len(q)]
            /\ unexpected_op_queue = <<>>
            /\ retry_op_queue = <<>>
            /\ unexpected_msg_queue = <<>>
            /\ completion_queue = <<>>
            /\ prog = ProgIdle
            /\ canc = CancIdle
            /\ fault = "none"

InitExp == ExpInit /\ BufParked /\ QPParked /\ ThrParked

NextExp ==
    \/ UNCHANGED smallVars /\ na_sm_progress_call
    \/ UNCHANGED smallVars /\ na_sm_progress_rx_queue
    \/ UNCHANGED smallVars /\ na_sm_process_expected
    \/ UNCHANGED smallVars /\ na_sm_progress_cmd_queue
    \/ UNCHANGED smallVars /\ na_sm_process_retries_head
    \/ UNCHANGED smallVars /\ NA_Trigger

SpecExp == InitExp /\ [][NextExp]_vars

\* The copy buffers of region r that a message in flight refers to: those
\* named by the headers on the two rings of every queue pair of the region,
\* the one of the header the progress thread has popped and is processing,
\* and the one the retry drain has reserved for the op it is posting.
InFlightBufs(r) ==
    {region[r].tx_queue[k].buf_idx : k \in 1..Len(region[r].tx_queue)}
        \cup {region[r].rx_queue[k].buf_idx : k \in 1..Len(region[r].rx_queue)}
        \cup (IF /\ prog.pc \in {"unexpected", "expected"}
                 /\ addr[prog.cur].shared_region = r
              THEN {prog.hdr.buf_idx} ELSE {})
        \cup (IF /\ prog.pc \in {"retry_check", "retry_post"}
                 /\ op[prog.op].na_sm_addr # NULL
                 /\ addr[op[prog.op].na_sm_addr].shared_region = r
              THEN {prog.buf_idx} ELSE {})

\* The progress thread's step pops a header of one of the kinds from the rx
\* ring of the address it polls and releases the header's copy buffer, in
\* the same step or, when a receive takes the message, in the step that
\* completes the receive; nothing else happens to the buffers.
ReceiverReleases(kinds) ==
    LET a == prog.cur
        r == addr[a].shared_region
        ring == region[r][RxRing(addr[a])]
    IN  /\ (/\ prog.pc = "poll"
            /\ addr[a].state = "live"
            /\ ring # <<>>
            /\ Head(ring).type \in kinds
            /\ na_sm_progress_rx_queue)
               => region'[r].copy_reserved
                      = IF prog'.pc \in {"unexpected", "expected"}
                        THEN region[r].copy_reserved
                        ELSE region[r].copy_reserved \ {Head(ring).buf_idx}
        /\ (/\ prog.pc \in {"unexpected", "expected"}
            /\ addr[a].state = "live"
            /\ prog.hdr.type \in kinds
            /\ na_sm_process_unexpected \/ na_sm_process_expected)
               => region'[r].copy_reserved
                      = region[r].copy_reserved \ {prog.hdr.buf_idx}

\* A buffer is never available while a header on a ring, or a thread that
\* has popped or is posting the header, still refers to it.
InFlightReserved ==
    \A r \in Regions : InFlightBufs(r) \subseteq region[r].copy_reserved

\* C35: every copy buffer a send reserved is released exactly once, by the
\* receiver after it has popped the header, whether or not a receive
\* matches and whatever the kind of the message, and never while a header
\* on a ring refers to it, so that with no message in flight the buffers
\* are available again.
C35_BuffersReleased ==
    /\ []InFlightReserved
    /\ [][ReceiverReleases({"NA_CB_SEND_UNEXPECTED",
                            "NA_CB_SEND_EXPECTED"})]_vars

\* What holds: the same for unexpected messages.
C35_UnexpectedReleased ==
    /\ []InFlightReserved
    /\ [][ReceiverReleases({"NA_CB_SEND_UNEXPECTED"})]_vars

\* An expected message that a posted receive matched has been received and
\* its buffer released.
C35_Witness ==
    /\ \E o \in Ops : op[o].type = "NA_CB_RECV_EXPECTED" /\ op[o].ncomplete = 1
    /\ region["own"].tx_queue = <<>>
    /\ prog.pc = "idle"
    /\ region["own"].copy_reserved = AllBufs \ (0..(MaxFree - 1))

(***************************************************************************)
(* SpecRma: na_sm_put and na_sm_get on a build with a cross-process copy   *)
(* primitive (NA_SM_HAS_CMA or __APPLE__; a build without one returns      *)
(* NA_OPNOTSUPPORTED from both before anything else).  The caller looks    *)
(* the peer up, posts unexpected receives and calls put and get with any   *)
(* op, free or busy, and a remote handle with any access flags.            *)
(* thr = [call, op, flags, ret, attempted] is the last put or get: the     *)
(* function, its op and remote flags, what it returned and whether it got  *)
(* as far as the copy primitive.                                           *)
(***************************************************************************)

\* info.flags of the remote memory handle; "NONE" is a value that is none
\* of the three access flags.
MemFlags ==
    {"NA_MEM_READ_ONLY", "NA_MEM_WRITE_ONLY", "NA_MEM_READWRITE", "NONE"}

\* What can happen after the op has been posted: all goes well, malloc of a
\* translated segment list fails, the copy primitive fails with EPERM, or
\* it transfers fewer bytes than asked.
RmaOutcomes == {"ok", "NA_NOMEM", "NA_PERMISSION", "NA_MSGSIZE"}

RmaInit ==
    /\ EpInit
    /\ thr = [call |-> "none", op |-> 0, flags |-> "NONE", ret |-> "NONE",
              attempted |-> FALSE]

\* The body that na_sm_put and na_sm_get share, type being NA_CB_PUT or
\* NA_CB_GET and denied the access flag the function rejects: the switch on
\* the remote flags, the test of the op (COMPLETED must be set), the post
\* (a reference on the address, status 0), the translation of the segment
\* lists, the copy primitive, na_sm_complete; the error path after the post
\* gives the reference back and sets the status to COMPLETED.
RmaCall(o, a, flags, out, type, denied) ==
    /\ Running
    /\ handles[a] > 0
    /\ ~Linked(completion_queue, o)
    /\ LET rejected == IF flags = denied THEN "NA_PERMISSION"
                       ELSE IF flags = "NONE" THEN "NA_INVALID_ARG"
                       ELSE IF NA_SM_OP_COMPLETED \notin op[o].status
                       THEN "NA_BUSY"
                       ELSE "NA_SUCCESS"
           h0 == [Heap EXCEPT
                     !.addr[a].ref_count = @ + 1,
                     !.op[o] = PostedOp(type, a, 0, MsgSize, 0)]
           h1 == IF out = "ok"
                 THEN na_sm_complete(h0, o)
                 ELSE [h0 EXCEPT !.addr[a].ref_count = @ - 1,
                                 !.op[o].status = {NA_SM_OP_COMPLETED}]
           call == [call |-> type, op |-> o, flags |-> flags, ret |-> "NONE",
                    attempted |-> FALSE]
       IN  IF rejected # "NA_SUCCESS"
           THEN /\ thr' = [call EXCEPT !.ret = rejected]
                /\ UNCHANGED <<opVars, addrVars, region, endpoint, fault>>
           ELSE IF addr[a].state # "live"
           THEN /\ Fault
                /\ thr' = call
           ELSE /\ endpoint.posts < MaxPosts
                /\ SetHeap(h1)
                /\ Posted
                /\ thr' = [call EXCEPT
                              !.ret = IF out = "ok" THEN "NA_SUCCESS" ELSE out,
                              !.attempted = out # "NA_NOMEM"]
                /\ UNCHANGED <<queueVars, addr_map, handles, fault>>
    /\ UNCHANGED <<prog, canc>>

\* A plausible slip: the access flags are looked at after the op has been
\* posted, the rejection going through the error path.
na_sm_put_flags_late(o, a, flags, out) ==
    IF flags = "NA_MEM_READ_ONLY" /\ NA_SM_OP_COMPLETED \in op[o].status
    THEN /\ Running
         /\ handles[a] > 0
         /\ ~Linked(completion_queue, o)
         /\ addr[a].state = "live"
         /\ op' = [op EXCEPT ![o] =
                       [PostedOp("NA_CB_PUT", a, 0, MsgSize, 0) EXCEPT
                           !.status = {NA_SM_OP_COMPLETED}]]
         /\ thr' = [call |-> "NA_CB_PUT", op |-> o, flags |-> flags,
                    ret |-> "NA_PERMISSION", attempted |-> FALSE]
         /\ UNCHANGED <<queueVars, completion_queue, addrVars, region,
                        endpoint, fault, prog, canc>>
    ELSE RmaCall(o, a, flags, out, "NA_CB_PUT", "NA_MEM_READ_ONLY")

\* na_sm_put: a remote handle that is read-only is rejected.
na_sm_put(o, a, flags, out) ==
    RmaCall(o, a, flags, out, "NA_CB_PUT", "NA_MEM_READ_ONLY")

\* na_sm_get: a remote handle that is write-only is rejected.
na_sm_get(o, a, flags, out) ==
    RmaCall(o, a, flags, out, "NA_CB_GET", "NA_MEM_WRITE_ONLY")

\* C30: na_sm_put with a read-only remote handle and na_sm_get with a
\* write-only one return NA_PERMISSION without reaching the copy primitive,
\* and leave every op, the addresses with their reference counts, and all
\* queues as they were.
C30_AccessRejectedUnchanged ==
    [][\A o \in Ops, a \in AddrIds, out \in RmaOutcomes :
          (\/ na_sm_put(o, a, "NA_MEM_READ_ONLY", out)
           \/ na_sm_get(o, a, "NA_MEM_WRITE_ONLY", out)) =>
              /\ thr'.ret = "NA_PERMISSION"
              /\ ~thr'.attempted
              /\ UNCHANGED <<opVars, addrVars, region, endpoint, fault>>]_vars

\* C30, its case: na_sm_put has rejected a read-only remote handle, called
\* with an op that is posted and queued.
C30_Witness ==
    /\ thr.call = "NA_CB_PUT"
    /\ thr.flags = "NA_MEM_READ_ONLY"
    /\ thr.ret = "NA_PERMISSION"
    /\ ~thr.attempted
    /\ op[thr.op].status = {NA_SM_OP_QUEUED}
    /\ Linked(unexpected_op_queue, thr.op)

\* C30, the same for na_sm_get and a write-only handle, called with a free
\* op after an earlier get has completed.
C30_WitnessGet ==
    /\ thr.call = "NA_CB_GET"
    /\ thr.flags = "NA_MEM_WRITE_ONLY"
    /\ thr.ret = "NA_PERMISSION"
    /\ op[thr.op].type = "NA_CB_GET"
    /\ op[thr.op].status = {NA_SM_OP_COMPLETED}
    /\ addr["lk"].ref_count = 2

InitRma == RmaInit /\ BufParked /\ QPParked

NextRma ==
    \/ UNCHANGED smallVars /\ na_sm_addr_lookup
    \/ UNCHANGED smallVars /\ \E o \in Ops : na_sm_msg_recv_unexpected(o)
    \/ UNCHANGED smallVars /\ NA_Trigger
    \/ UNCHANGED <<bufVars, qpVars>> /\
           \E o \in Ops, a \in AddrIds, flags \in MemFlags,
              out \in RmaOutcomes : na_sm_put(o, a, flags, out)
    \/ UNCHANGED <<bufVars, qpVars>> /\
           \E o \in Ops, a \in AddrIds, flags \in MemFlags,
              out \in RmaOutcomes : na_sm_get(o, a, flags, out)

SpecRma == InitRma /\ [][NextRma]_vars

(***************************************************************************)
(* SpecMem: memory handles.  The caller creates a handle over a list of    *)
(* segments (na_sm_mem_handle_create_segments), then either uses it in a   *)
(* put or get, which translates (offset, length) into the segment list it  *)
(* hands to the copy primitive, or serializes it and deserializes the      *)
(* bytes again.                                                            *)
(* thr = [pc, handle, offset, length, liov, buf, out, ret]: the handle,    *)
(* the arguments of the transfer and the list handed over, the serialized  *)
(* form, the handle deserialized from it and the last result.              *)
(***************************************************************************)

NA_SM_IOV_STATIC_MAX == 8

\* The segment lists the caller registers: up to MaxSegs segments of 0 to
\* MaxSegLen bytes (na_sm_mem_handle_create_segments accepts a segment of
\* length 0), and two long lists, one of NA_SM_IOV_STATIC_MAX segments and
\* one of a segment more.
MaxSegs == 3
MaxSegLen == 2

\* The buffers of the caller: segment k of a list starts at SegBase(k), so
\* that no two segments are adjacent in memory.
SegBase(k) == 16 * k

Min(a, b) == IF a < b THEN a ELSE b

MemSegments ==
    UNION {[1..n -> 0..MaxSegLen] : n \in 1..MaxSegs}
        \cup {[k \in 1..n |-> 1] :
                 n \in {NA_SM_IOV_STATIC_MAX, NA_SM_IOV_STATIC_MAX + 1}}

\* na_sm_mem_handle_create_segments: the iovec array (static up to
\* NA_SM_IOV_STATIC_MAX entries, allocated above), info.len the sum of the
\* lengths, info.iovcnt, info.flags.
na_sm_mem_handle_create_segments(lens, flags) ==
    LET RECURSIVE len(_)
        len(i) == IF i = 0 THEN 0 ELSE len(i - 1) + lens[i]
    IN  [info |-> [iovcnt |-> Len(lens), len |-> len(Len(lens)),
                   flags |-> flags],
         iov |-> [k \in 1..Len(lens) |->
                     [iov_base |-> SegBase(k), iov_len |-> lens[k]]]]

\* The length of the longest handle.
MemMaxLen ==
    IF MaxSegs * MaxSegLen > NA_SM_IOV_STATIC_MAX + 1
    THEN MaxSegs * MaxSegLen ELSE NA_SM_IOV_STATIC_MAX + 1

MemInit ==
    \E lens \in MemSegments, flags \in MemFlags \ {"NONE"} :
        thr = [pc |-> "created",
               handle |-> na_sm_mem_handle_create_segments(lens, flags),
               offset |-> 0, length |-> 0, liov |-> NULL, buf |-> NULL,
               out |-> NULL, ret |-> "NONE"]

\* na_sm_iov_get_index_offset: the index (from 0) of the first segment that
\* ends after offset, and the offset left inside it.
na_sm_iov_get_index_offset(iov, iovcnt, offset) ==
    LET RECURSIVE loop(_, _, _)
        loop(i, new_iov_offset, next_offset) ==
            IF i >= iovcnt
            THEN [iov_start_index |-> 0, iov_start_offset |-> new_iov_offset]
            ELSE IF offset < next_offset + iov[i + 1].iov_len
            THEN [iov_start_index |-> i, iov_start_offset |-> new_iov_offset]
            ELSE loop(i + 1, new_iov_offset - iov[i + 1].iov_len,
                      next_offset + iov[i + 1].iov_len)
    IN  loop(0, offset, 0)

\* na_sm_iov_get_count: the number of entries the translated list needs.
na_sm_iov_get_count(iov, iovcnt, iov_start_index, iov_start_offset, len) ==
    LET RECURSIVE loop(_, _, _)
        loop(i, iov_index, remaining_len) ==
            IF remaining_len > 0 /\ iov_index < iovcnt
            THEN loop(i + 1, iov_index + 1,
                      remaining_len
                          - Min(remaining_len, iov[iov_index + 1].iov_len))
            ELSE i
    IN  loop(1, iov_start_index + 1,
             len - Min(len,
                       iov[iov_start_index + 1].iov_len - iov_start_offset))

\* na_sm_iov_translate: fills new_iov, of new_iovcnt entries; an entry the
\* loop does not reach keeps what the memory held.
na_sm_iov_translate(iov, iovcnt, iov_start_index, iov_start_offset, len, new_iovcnt) ==
    LET first == Min(len,
                     iov[iov_start_index + 1].iov_len - iov_start_offset)
        RECURSIVE loop(_, _, _, _)
        loop(i, iov_index, remaining_len, new_iov) ==
            IF remaining_len > 0 /\ i < new_iovcnt /\ iov_index < iovcnt
            THEN LET iov_len ==
                         Min(remaining_len, iov[iov_index + 1].iov_len)
                 IN  loop(i + 1, iov_index + 1, remaining_len - iov_len,
                          Append(new_iov,
                                 [iov_base |-> iov[iov_index + 1].iov_base,
                                  iov_len |-> iov_len]))
            ELSE new_iov
                     \o [k \in 1..(new_iovcnt - i) |-> "uninitialized"]
    IN  loop(1, iov_start_index + 1, len - first,
             <<[iov_base |->
                    iov[iov_start_index + 1].iov_base + iov_start_offset,
                iov_len |-> first]>>)

\* The list na_sm_put and na_sm_get hand to the copy primitive for one of
\* the two handles: the start is looked for only if the offset is not 0,
\* and the list is translated only if the length is not the length of the
\* whole handle, which is handed over as it is otherwise.
TransferIov(H, offset, length) ==
    LET start == IF offset > 0
                 THEN na_sm_iov_get_index_offset(H.iov, H.info.iovcnt, offset)
                 ELSE [iov_start_index |-> 0, iov_start_offset |-> 0]
        liovcnt == na_sm_iov_get_count(H.iov, H.info.iovcnt,
                       start.iov_start_index, start.iov_start_offset, length)
    IN  IF length # H.info.len
        THEN na_sm_iov_translate(H.iov, H.info.iovcnt, start.iov_start_index,
                 start.iov_start_offset, length, liovcnt)
        ELSE H.iov

\* na_sm_put / na_sm_get with the handle, from the translation of the
\* offset to the call of the copy primitive; the caller keeps to the
\* handle: length > 0 and offset + length within info.len.
na_sm_put_iov(offset, length) ==
    /\ thr.pc = "created"
    /\ length > 0
    /\ offset + length <= thr.handle.info.len
    /\ thr' = [thr EXCEPT !.pc = "translated", !.offset = offset,
                          !.length = length,
                          !.liov = TransferIov(thr.handle, offset, length)]
    /\ UNCHANGED <<bufVars, qpVars, epVars>>

\* The number of bytes in the first k segments of a list.
RECURSIVE Cum(_, _)
Cum(iov, k) == IF k = 0 THEN 0 ELSE Cum(iov, k - 1) + iov[k].iov_len

\* The segment that holds byte b of the handle.
SegOf(iov, b) ==
    CHOOSE k \in 1..Len(iov) : Cum(iov, k - 1) <= b /\ b < Cum(iov, k)

\* The addresses a segment list covers, in order.
RECURSIVE Bytes(_)
Bytes(iov) ==
    IF iov = <<>> THEN <<>>
    ELSE [b \in 1..Head(iov).iov_len |-> Head(iov).iov_base + b - 1]
             \o Bytes(Tail(iov))

\* The run of segments from the one holding byte offset to the one holding
\* byte offset + length - 1, cut to the bytes [offset, offset + length).
MinimalRun(iov, offset, length) ==
    LET s == SegOf(iov, offset)
        e == SegOf(iov, offset + length - 1)
    IN  [k \in 1..(e - s + 1) |->
            LET j == s + k - 1
                lo == IF offset > Cum(iov, j - 1) THEN offset
                      ELSE Cum(iov, j - 1)
                hi == Min(offset + length, Cum(iov, j))
            IN  [iov_base |-> iov[j].iov_base + (lo - Cum(iov, j - 1)),
                 iov_len |-> hi - lo]]

\* C31: for every segment list and every (offset, length) with length > 0
\* and offset + length within the handle, the list handed to the copy
\* primitive is the minimal run of segments covering the bytes
\* [offset, offset + length): the first entry starts at the right byte of
\* the segment containing offset, every later entry at the base of the
\* next segment, and the lengths sum to length.
C31_MinimalRun ==
    thr.pc = "translated"
        => thr.liov = MinimalRun(thr.handle.iov, thr.offset, thr.length)

\* What holds for every list: the list handed over covers exactly the
\* bytes [offset, offset + length) in order, and it is the minimal run
\* whenever no segment of the handle is empty.
C31_CoversBytes ==
    thr.pc = "translated"
        => /\ Bytes(thr.liov)
                  = SubSeq(Bytes(thr.handle.iov), thr.offset + 1,
                           thr.offset + thr.length)
           /\ (\A k \in 1..Len(thr.handle.iov) :
                   thr.handle.iov[k].iov_len > 0)
                  => thr.liov = MinimalRun(thr.handle.iov, thr.offset,
                                           thr.length)

C31_Witness ==
    /\ thr.pc = "translated"
    /\ thr.offset > 0
    /\ Len(thr.liov) > 1
    /\ Len(thr.liov) < Len(thr.handle.iov)
    /\ thr.liov[1].iov_len < thr.handle.iov[SegOf(thr.handle.iov,
                                                  thr.offset)].iov_len

\* NA_ENCODE and NA_ENCODE_ARRAY copy the bytes of a value, or of count
\* array elements, to the buffer and move the buffer pointer on; NA_DECODE
\* and NA_DECODE_ARRAY copy them back.  The unit of the buffer is a field:
\* {segment count, total length, access flags}, then (base, length) of
\* each segment.
NA_ENCODE(buf, info) == buf \o <<info.iovcnt, info.len, info.flags>>

NA_ENCODE_ARRAY(buf, iov, count) ==
    LET RECURSIVE loop(_)
        loop(k) == IF k = 0 THEN buf
                   ELSE loop(k - 1) \o <<iov[k].iov_base, iov[k].iov_len>>
    IN  loop(count)

NA_DECODE(buf) == [iovcnt |-> buf[1], len |-> buf[2], flags |-> buf[3]]

NA_DECODE_ARRAY(buf, count) ==
    [k \in 1..count |->
        [iov_base |-> buf[3 + 2 * k - 1], iov_len |-> buf[3 + 2 * k]]]

\* na_sm_mem_handle_get_serialize_size: sizeof(info) and iovcnt iovecs.
na_sm_mem_handle_get_serialize_size(H) == 3 + H.info.iovcnt * 2

\* na_sm_mem_handle_serialize into a buffer of the serialize size: the
\* descriptor info, then the first info.iovcnt entries of the array the
\* handle uses (iov.s up to NA_SM_IOV_STATIC_MAX segments, iov.d above).
na_sm_mem_handle_serialize ==
    /\ thr.pc = "created"
    /\ thr' = [thr EXCEPT
           !.pc = "serialized",
           !.buf = NA_ENCODE_ARRAY(NA_ENCODE(<<>>, thr.handle.info),
                       thr.handle.iov, thr.handle.info.iovcnt),
           !.ret = "NA_SUCCESS"]
    /\ UNCHANGED <<bufVars, qpVars, epVars>>

\* A deserialize that always reads into the static array.
na_sm_mem_handle_deserialize_static(nomem) ==
    /\ thr.pc = "serialized"
    /\ nomem = "iov" => NA_DECODE(thr.buf).iovcnt > NA_SM_IOV_STATIC_MAX
    /\ LET info == NA_DECODE(thr.buf)
       IN  thr' = IF nomem # "none"
                  THEN [thr EXCEPT !.pc = "deserialized", !.ret = "NA_NOMEM"]
                  ELSE [thr EXCEPT
                           !.pc = "deserialized", !.ret = "NA_SUCCESS",
                           !.out = [info |-> info,
                                    iov |-> NA_DECODE_ARRAY(thr.buf,
                                        Min(info.iovcnt,
                                            NA_SM_IOV_STATIC_MAX))]]
    /\ UNCHANGED <<bufVars, qpVars, epVars>>

\* na_sm_mem_handle_deserialize: allocate the handle, decode the info,
\* allocate iov.d if info.iovcnt is above NA_SM_IOV_STATIC_MAX, decode
\* info.iovcnt entries; nomem is the allocation that fails, if any.
na_sm_mem_handle_deserialize(nomem) ==
    /\ thr.pc = "serialized"
    /\ nomem = "iov" => NA_DECODE(thr.buf).iovcnt > NA_SM_IOV_STATIC_MAX
    /\ LET info == NA_DECODE(thr.buf)
       IN  thr' = IF nomem # "none"
                  THEN [thr EXCEPT !.pc = "deserialized", !.ret = "NA_NOMEM"]
                  ELSE [thr EXCEPT
                           !.pc = "deserialized", !.ret = "NA_SUCCESS",
                           !.out = [info |-> info,
                                    iov |-> NA_DECODE_ARRAY(thr.buf,
                                                info.iovcnt)]]
    /\ UNCHANGED <<bufVars, qpVars, epVars>>

\* C32: serializing a memory handle with K segments and deserializing the
\* result yields a handle with the same segment count, the same K
\* (base, length) pairs in the same order, the same total length and the
\* same access flags, for K up to and above NA_SM_IOV_STATIC_MAX; the
\* serialized form has the serialize size.
C32_RoundTrip ==
    /\ thr.pc = "serialized"
           => Len(thr.buf) = na_sm_mem_handle_get_serialize_size(thr.handle)
    /\ (thr.pc = "deserialized" /\ thr.ret = "NA_SUCCESS")
           => /\ thr.out.info.iovcnt = thr.handle.info.iovcnt
              /\ Len(thr.out.iov) = thr.handle.info.iovcnt
              /\ \A k \in 1..thr.handle.info.iovcnt :
                     /\ thr.out.iov[k].iov_base = thr.handle.iov[k].iov_base
                     /\ thr.out.iov[k].iov_len = thr.handle.iov[k].iov_len
              /\ thr.out.info.len = thr.handle.info.len
              /\ thr.out.info.flags = thr.handle.info.flags

C32_Witness ==
    /\ thr.pc = "deserialized"
    /\ thr.ret = "NA_SUCCESS"
    /\ thr.handle.info.iovcnt > NA_SM_IOV_STATIC_MAX
    /\ Len(thr.out.iov) = thr.handle.info.iovcnt

C32_WitnessStatic ==
    /\ thr.pc = "deserialized"
    /\ thr.ret = "NA_SUCCESS"
    /\ thr.handle.info.iovcnt = NA_SM_IOV_STATIC_MAX
    /\ thr.out.iov = thr.handle.iov

InitMem == MemInit /\ BufParked /\ QPParked /\ EpParked

NextMem ==
    \/ \E offset \in 0..MemMaxLen, length \in 1..MemMaxLen :
           na_sm_put_iov(offset, length)
    \/ na_sm_mem_handle_serialize
    \/ \E nomem \in {"none", "handle", "iov"} :
           na_sm_mem_handle_deserialize(nomem)

SpecMem == InitMem /\ [][NextMem]_vars

(***************************************************************************)
(* SpecWire: the wires of wiring.c.  A wiring holds NumWires wires; the    *)
(* application starts connections (wireup_start), messages arrive          *)
(* (wireup_rx_msg) and wires time out (wireup_timeout_transition), with    *)
(* endpoint creation, sends and allocations that may fail.                 *)
(* thr = [wire, first_free, to_expire, last]: the wires (state, id, ep,    *)
(* msg, next_free), the head of the free list, the timeout list, and the   *)
(* last event: a call of wireup_start, a timeout, or the opcode of the     *)
(* message received and whether that message violated the protocol.        *)
(***************************************************************************)

NumWires == 2

WireIds == 0..(NumWires - 1)

\* The sender ids of the model: 0..SENDER_ID_MAX are legal, one value lies
\* above; SENDER_ID_NIL is none of them.
SENDER_ID_MAX == NumWires

SENDER_ID_NIL == -1

\* The free list and the timeout list of the wiring: the free list is
\* linked through next_free from first_free, a put is at its head; the
\* timeout list is kept in the order of expiry, which is the order in which
\* the wires were put, every expiry being timeout_interval after the put.
wiring_free_get(W) == W.first_free

wiring_free_take(W) ==
    [W EXCEPT !.first_free = W.wire[W.first_free].next_free,
              !.wire[W.first_free].next_free = SENDER_ID_NIL]

wiring_free_put(W, id) ==
    [W EXCEPT !.wire[id].next_free = W.first_free, !.first_free = id]

wiring_timeout_remove(W, w) ==
    [W EXCEPT !.to_expire = SelectSeq(@, LAMBDA x : x # w)]

wiring_timeout_put(W, w) ==
    [W EXCEPT !.to_expire = Append(SelectSeq(@, LAMBDA x : x # w), w)]

\* wiring_create: every wire is in state dead and on the free list, in the
\* order of the indexes (the wiring is taken at NumWires wires).
WireInit ==
    thr = [wire |-> [i \in WireIds |->
                       [next_free |-> IF i = NumWires - 1 THEN SENDER_ID_NIL
                                      ELSE i + 1,
                        state |-> "WIRE_S_DEAD", ep |-> NULL,
                        id |-> SENDER_ID_NIL, msg |-> NULL]],
           first_free |-> 0, to_expire |-> <<>>,
           last |-> [event |-> "none", violates |-> FALSE]]

\* wiring_release_wire: free the message, close the endpoint, forget the
\* id, take the wire off the timeout list and put it on the free list.
wiring_release_wire(W, w) ==
    wiring_free_put(
        wiring_timeout_remove(
            [W EXCEPT !.wire[w].msg = NULL, !.wire[w].ep = NULL,
                      !.wire[w].id = SENDER_ID_NIL], w), w)

\* The messages that arrive: the tag's sender id proto_id names the wire,
\* then op, sender_id and addrlen of the message.
WireMsgs ==
    [proto_id : 0..(SENDER_ID_MAX + 1),
     op : {"OP_REQ", "OP_ACK", "OP_KEEPALIVE", "OTHER"},
     sender_id : {0, SENDER_ID_MAX, SENDER_ID_MAX + 1}, addrlen : {0, 1}]

\* What can go wrong when a wire is set up: nothing, ucp_ep_create fails,
\* or the send of the first message fails.
WireOutcomes == {"ok", "ep", "send"}

\* The receive handlers of the state table; each yields the wiring and the
\* next state of the wire.
start_early_life(W, w, msg) ==
    IF msg.sender_id > SENDER_ID_MAX \/ msg.op # "OP_ACK" \/ msg.addrlen # 0
    THEN <<W, W.wire[w].state>>
    ELSE <<wiring_timeout_put(
               wiring_timeout_remove(
                   [W EXCEPT !.wire[w].id = msg.sender_id,
                             !.wire[w].msg = NULL], w), w),
           "WIRE_S_EARLY_LIFE">>

continue_early_life(W, w, msg) ==
    IF msg.sender_id > SENDER_ID_MAX \/ msg.op # "OP_KEEPALIVE"
           \/ msg.addrlen # 0
    THEN <<W, W.wire[w].state>>
    ELSE IF msg.sender_id # W.wire[w].id
    THEN <<wiring_release_wire(W, w), "WIRE_S_DEAD">>
    ELSE <<W, "WIRE_S_EARLY_LIFE">>

reject_msg(W, w, msg) == <<W, "WIRE_S_DEAD">>

\* The timeout handlers of the state table; ok is whether the send (retry)
\* or the allocation (start_late_life) succeeds.
retry(W, w, ok) ==
    IF ~ok THEN <<wiring_release_wire(W, w), "WIRE_S_DEAD">>
    ELSE <<wiring_timeout_put(W, w), "WIRE_S_INITIAL">>

start_late_life(W, w, ok) ==
    IF ~ok THEN <<W, "WIRE_S_LATE_LIFE">>
    ELSE <<wiring_timeout_put(W, w), "WIRE_S_LATE_LIFE">>

destroy(W, w) == <<wiring_release_wire(W, w), "WIRE_S_DEAD">>

reject_timeout(W, w) == <<W, "WIRE_S_DEAD">>

\* state[]: the handlers of each state.
state_receive(W, w, msg) ==
    CASE W.wire[w].state = "WIRE_S_INITIAL" -> start_early_life(W, w, msg)
      [] W.wire[w].state \in {"WIRE_S_EARLY_LIFE", "WIRE_S_LATE_LIFE"} ->
             continue_early_life(W, w, msg)
      [] OTHER -> reject_msg(W, w, msg)

state_timeout(W, w, ok) ==
    CASE W.wire[w].state = "WIRE_S_INITIAL" -> retry(W, w, ok)
      [] W.wire[w].state = "WIRE_S_EARLY_LIFE" -> start_late_life(W, w, ok)
      [] W.wire[w].state = "WIRE_S_LATE_LIFE" -> destroy(W, w)
      [] OTHER -> reject_timeout(W, w)

\* w->state = (*ostate->receive)(wiring, w, msg), and the same for a
\* timeout: the handler runs, then its result is stored in the wire.
SetState(r, w) == [r[1] EXCEPT !.wire[w].state = r[2]]

\* wireup_msg_transition: a tag id that is illegal or out of bounds is
\* dropped, else the wire's receive handler decides.
wireup_msg_transition(W, msg) ==
    IF msg.proto_id > SENDER_ID_MAX \/ msg.proto_id >= NumWires THEN W
    ELSE SetState(state_receive(W, msg.proto_id, msg), msg.proto_id)

\* wireup_respond: take a free wire (enlarging the wiring fails at
\* NumWires wires), create the endpoint, make the wire an early-life wire
\* with the requester's id, put it on the timeout list, send the ACK.  When
\* the endpoint cannot be created or the send fails the wire goes back on
\* the free list as it is.
wireup_respond(W, rid, out) ==
    LET id == wiring_free_get(W)
        taken == wiring_free_take(W)
        wired == wiring_timeout_put(
                     [taken EXCEPT !.wire[id] =
                         [next_free |-> 0, state |-> "WIRE_S_EARLY_LIFE",
                          ep |-> "ep", id |-> rid, msg |-> NULL]], id)
    IN  IF id = SENDER_ID_NIL THEN W
        ELSE IF out = "ep" THEN wiring_free_put(taken, id)
        ELSE IF out = "send" THEN wiring_free_put(wired, id)
        ELSE wired

\* wireup_rx_req: a request without an address is dropped, any other is
\* answered.
wireup_rx_req(W, msg, out) ==
    IF msg.addrlen = 0 THEN W
    ELSE wireup_respond(W, msg.sender_id, out)

\* The violations of the protocol: an unknown opcode, a sender id out of
\* range in the message, a request without an address; in ACK and
\* KEEPALIVE, whose tag names the wire, a sender id out of range in the
\* tag, an address length other than 0, an opcode the wire does not accept
\* in its state, a KEEPALIVE whose sender id is not the id assigned to the
\* wire.
Violates(W, msg) ==
    \/ msg.op = "OTHER"
    \/ msg.sender_id > SENDER_ID_MAX
    \/ msg.op = "OP_REQ" /\ msg.addrlen = 0
    \/ /\ msg.op \in {"OP_ACK", "OP_KEEPALIVE"}
       /\ \/ msg.proto_id > SENDER_ID_MAX
          \/ msg.proto_id >= NumWires
          \/ msg.addrlen # 0
          \/ LET w == W.wire[msg.proto_id]
             IN  \/ w.state = "WIRE_S_DEAD"
                 \/ w.state = "WIRE_S_INITIAL" /\ msg.op # "OP_ACK"
                 \/ /\ w.state \in {"WIRE_S_EARLY_LIFE", "WIRE_S_LATE_LIFE"}
                    /\ msg.op # "OP_KEEPALIVE" \/ msg.sender_id # w.id

\* wireup_rx_msg with a buffer that holds the whole message: an unknown
\* opcode is dropped, a request is answered, ACK and KEEPALIVE go to the
\* wire the tag names.
wireup_rx_msg(msg, out) ==
    /\ msg.op # "OP_REQ" => out = "ok"
    /\ LET W == CASE msg.op = "OP_REQ" ->
                         wireup_rx_req(thr, msg, out)
                  [] msg.op \in {"OP_ACK", "OP_KEEPALIVE"} ->
                         wireup_msg_transition(thr, msg)
                  [] OTHER -> thr
       IN  thr' = [W EXCEPT !.last = [event |-> msg.op,
                                      violates |-> Violates(thr, msg)]]
    /\ UNCHANGED <<bufVars, qpVars, epVars>>

\* wireup_timeout_transition, one round of its loop: the first wire of the
\* timeout list has expired, it is taken off the list and its timeout
\* handler decides.
wireup_timeout_transition(ok) ==
    /\ thr.to_expire # <<>>
    /\ LET w == Head(thr.to_expire)
       IN  thr' = [SetState(state_timeout(wiring_timeout_remove(thr, w), w,
                                          ok), w)
                       EXCEPT !.last = [event |-> "timeout",
                                        violates |-> FALSE]]
    /\ UNCHANGED <<bufVars, qpVars, epVars>>

\* wireup_start: take a free wire, create the endpoint, make the wire an
\* initial wire holding the request, put it on the timeout list and send
\* the request; a failure after a wire was taken releases that wire.
wireup_start(out) ==
    /\ LET id == wiring_free_get(thr)
           taken == wiring_free_take(thr)
           wired == wiring_timeout_put(
                        [taken EXCEPT !.wire[id] =
                            [next_free |-> 0, state |-> "WIRE_S_INITIAL",
                             ep |-> "ep", id |-> SENDER_ID_NIL,
                             msg |-> "msg"]], id)
           W == IF id = SENDER_ID_NIL THEN thr
                ELSE IF out = "ep" THEN wiring_release_wire(taken, id)
                ELSE IF out = "send" THEN wiring_release_wire(wired, id)
                ELSE wired
       IN  thr' = [W EXCEPT !.last = [event |-> "wireup_start",
                                      violates |-> FALSE]]
    /\ UNCHANGED <<bufVars, qpVars, epVars>>

\* A wire as wiring_release_wire leaves it.
Released(W, w) ==
    /\ W.wire[w].ep = NULL
    /\ W.wire[w].msg = NULL
    /\ W.wire[w].id = SENDER_ID_NIL
    /\ \A k \in 1..Len(W.to_expire) : W.to_expire[k] # w
    /\ W.first_free = w

\* What a violating message may do to a wire: nothing to its state, or
\* release it and make it dead.
DropsOrKills(w) ==
    \/ thr'.wire[w].state = thr.wire[w].state
    \/ thr'.wire[w].state = "WIRE_S_DEAD" /\ Released(thr', w)

\* C33: a received message that violates the protocol leaves the state of
\* every wire unchanged or releases the wire and moves it to dead, and dead
\* is terminal: no received message and no timeout moves a wire out of
\* dead.
C33_ViolationDropsOrKills ==
    [][/\ thr'.last.violates => \A w \in WireIds : DropsOrKills(w)
       /\ \A w \in WireIds :
              (/\ thr.wire[w].state = "WIRE_S_DEAD"
               /\ thr'.last.event # "wireup_start")
                  => thr'.wire[w].state = "WIRE_S_DEAD"]_vars

\* What holds: the same for the messages that go through the state table
\* (ACK and KEEPALIVE), for the messages dropped at once and for
\* timeouts; a dead wire leaves dead only when it is taken from the free
\* list for a new connection, by wireup_start or by the answer to a
\* received request.
C33_StateTable ==
    [][/\ (thr'.last.violates /\ thr'.last.event # "OP_REQ")
              => \A w \in WireIds : DropsOrKills(w)
       /\ \A w \in WireIds :
              (/\ thr.wire[w].state = "WIRE_S_DEAD"
               /\ thr'.wire[w].state # "WIRE_S_DEAD")
                  => /\ thr'.last.event \in {"wireup_start", "OP_REQ"}
                     /\ thr.first_free = w
                     /\ thr'.wire[w].state
                            = IF thr'.last.event = "OP_REQ"
                              THEN "WIRE_S_EARLY_LIFE"
                              ELSE "WIRE_S_INITIAL"]_vars

\* A wire that a KEEPALIVE with a foreign sender id has killed.
C33_Witness ==
    /\ thr.last = [event |-> "OP_KEEPALIVE", violates |-> TRUE]
    /\ \E w \in WireIds :
           /\ thr.wire[w].state = "WIRE_S_DEAD"
           /\ Released(thr, w)
           /\ \E v \in WireIds : thr.wire[v].state = "WIRE_S_LATE_LIFE"

InitWire == WireInit /\ BufParked /\ QPParked /\ EpParked

NextWire ==
    \/ \E out \in WireOutcomes : wireup_start(out)
    \/ \E msg \in WireMsgs, out \in WireOutcomes : wireup_rx_msg(msg, out)
    \/ \E ok \in BOOLEAN : wireup_timeout_transition(ok)

SpecWire == InitWire /\ [][NextWire]_vars

(***************************************************************************)
(* SpecDrain: SpecSend with two threads inside na_sm_progress on the same  *)
(* endpoint.  prog holds the locals of the thread that takes the next      *)
(* step and thr those of the other thread; na_sm_progress_switch hands the *)
(* processor over, so that the steps of the two threads interleave in      *)
(* every way the locks allow (the retry queue lock is held inside a step,  *)
(* never across steps).                                                    *)
(***************************************************************************)

DrainInit == SendInit /\ thr = ProgIdle

na_sm_progress_switch ==
    /\ Running
    /\ prog' = thr
    /\ thr' = prog
    /\ UNCHANGED <<bufVars, qpVars, opVars, addrVars, region, canc, endpoint,
                   fault>>

\* The thread whose locals are p has taken op o off the retry queue and has
\* not completed it yet.
DrainHolds(p, o) == p.pc = "retry_post" /\ p.op = o

\* C34: with two threads in the retry drain, each parked op is removed from
\* the retry queue by exactly one thread (a thread never removes an op that
\* is no longer on the queue, and never holds an op the other thread
\* holds), its header is pushed once and it is completed once.
C34_DrainedOnce ==
    /\ fault = "none"
    /\ \A o \in Ops :
           /\ ~(DrainHolds(prog, o) /\ DrainHolds(thr, o))
           /\ op[o].ncomplete <= 1

\* Both threads have read the same op as the head of the retry queue and
\* each has reserved a copy buffer for it.
C34_Witness ==
    /\ prog.pc = "retry_check"
    /\ thr.pc = "retry_check"
    /\ prog.op = thr.op
    /\ prog.buf_idx # thr.buf_idx
    /\ fault = "none"

InitDrain == DrainInit /\ BufParked /\ QPParked

NextDrain ==
    \/ UNCHANGED smallVars /\ \E o \in Ops :
           na_sm_msg_send(o, "lk", "NA_CB_SEND_UNEXPECTED")
    \/ UNCHANGED smallVars /\ NA_Trigger
    \/ UNCHANGED smallVars /\ PeerRecv("peer", "tx_queue")
    \/ UNCHANGED smallVars /\ PeerProgressCmd
    \/ UNCHANGED smallVars /\ na_sm_progress_call
    \/ UNCHANGED smallVars /\ na_sm_progress_rx_queue
    \/ UNCHANGED smallVars /\ na_sm_progress_cmd_queue
    \/ UNCHANGED smallVars /\ na_sm_process_retries_head
    \/ UNCHANGED smallVars /\ na_sm_process_retries_reserve
    \/ UNCHANGED smallVars /\ na_sm_process_retries_check
    \/ UNCHANGED smallVars /\ na_sm_process_retries_post
    \/ na_sm_progress_switch

SpecDrain == InitDrain /\ [][NextDrain]_vars

(***************************************************************************)
(* SpecCancel: SpecSend with a thread in na_sm_cancel and with the send    *)
(* taken in two steps, so that na_sm_cancel can run inside it.  thr holds  *)
(* the position of the thread inside na_sm_msg_send_unexpected: the first  *)
(* step ends after hg_atomic_set32(&status, 0), the second is the rest of  *)
(* the function.                                                           *)
(***************************************************************************)

SendIdle == [pc |-> "idle", op |-> 0]

CancelInit == SendInit /\ thr = SendIdle

\* na_sm_msg_send_unexpected up to the reset of the status: the op's fields
\* are written, a reference is taken on the address, the status is set to 0.
na_sm_msg_send_reset(o, a, type) ==
    /\ Running
    /\ thr.pc = "idle"
    /\ CanPost(o)
    /\ handles[a] > 0
    /\ IF addr[a].state # "live"
       THEN Fault
       ELSE /\ SetHeap([Heap EXCEPT
                   !.addr[a].ref_count = @ + 1,
                   !.op[o] = PostedOp(type, a, MsgTag, MsgSize, MsgSize)])
            /\ thr' = [pc |-> "reset", op |-> o]
            /\ Posted
            /\ UNCHANGED <<queueVars, addr_map, handles, prog, canc, fault>>
    /\ UNCHANGED <<bufVars, qpVars>>

\* The rest of na_sm_msg_send_unexpected: resolve the address if needed,
\* reserve a copy buffer (NA_AGAIN from either: na_sm_op_retry, which links
\* the op on the retry queue and ors QUEUED into the status it finds), push
\* the header, complete.
na_sm_msg_send_rest ==
    /\ Running
    /\ thr.pc = "reset"
    /\ LET o == thr.op
           a == op[o].na_sm_addr
           h0 == Heap
           h1 == IF NA_SM_ADDR_RESOLVED \notin addr[a].status
                 THEN na_sm_addr_resolve(h0, a)
                 ELSE h0
           ret == IF NA_SM_ADDR_RESOLVED \notin addr[a].status
                  THEN na_sm_addr_resolve_ret(h0, a)
                  ELSE "NA_SUCCESS"
           r == h1.addr[a].shared_region
           ring == TxRing(h1.addr[a])
           buf_idx == LowestFree(h1.region[r].copy_reserved, NA_SM_NUM_BUFS)
       IN  /\ IF ret \notin {"NA_SUCCESS", "NA_AGAIN"}
              THEN /\ SetHeap([h1 EXCEPT
                          !.addr[a].ref_count = @ - 1,
                          !.op[o].status = {NA_SM_OP_COMPLETED}])
                   /\ UNCHANGED retry_op_queue
              ELSE IF ret = "NA_AGAIN" \/ buf_idx = -1
              THEN /\ SetHeap([h1 EXCEPT
                          !.op[o].status = @ \cup {NA_SM_OP_QUEUED},
                          !.op[o].parked = TRUE])
                   /\ retry_op_queue' = Append(retry_op_queue, o)
              ELSE IF MsgQueueFull(h1.region[r][ring])
              THEN /\ SetHeap([h1 EXCEPT
                          !.addr[a].ref_count = @ - 1,
                          !.op[o].status = {NA_SM_OP_COMPLETED}])
                   /\ UNCHANGED retry_op_queue
              ELSE /\ SetHeap(na_sm_complete(
                          [h1 EXCEPT
                              !.region[r].copy_reserved = @ \cup {buf_idx},
                              !.region[r][ring] =
                                  Append(@, MsgHdr(op[o].type, buf_idx,
                                                   MsgSize, MsgTag))], o))
                   /\ UNCHANGED retry_op_queue
           /\ thr' = SendIdle
           /\ UNCHANGED <<unexpected_op_queue, expected_op_queue,
                          unexpected_msg_queue, addr_map, handles, prog,
                          canc, endpoint, fault>>
    /\ UNCHANGED <<bufVars, qpVars>>

\* The steps of the thread inside na_sm_progress.
ProgressSteps ==
    /\ UNCHANGED smallVars
    /\ \/ na_sm_progress_rx_queue
       \/ na_sm_progress_cmd_queue
       \/ na_sm_process_retries_head
       \/ na_sm_process_retries_reserve
       \/ na_sm_process_retries_check
       \/ na_sm_process_retries_post

\* The steps of the thread inside na_sm_cancel, after the call.
CancelSteps ==
    /\ UNCHANGED smallVars
    /\ \/ na_sm_cancel_remove
       \/ na_sm_cancel_complete

\* C36: every na_sm_progress call returns: a thread that is inside
\* na_sm_progress leaves it (or stops at a fault), whatever the interleaving
\* of na_sm_cancel with the send that parks the op, as long as the threads
\* inside na_sm_progress, na_sm_cancel and the send keep running.
C36_ProgressReturns ==
    (prog.pc # "idle") ~> (prog.pc = "idle" \/ fault # "none")

\* C36: what makes the drain spin: an op on the retry queue carries CANCELED
\* and no thread is inside na_sm_cancel to remove it.
C36_CanceledIsRemoved ==
    \A k \in 1..Len(retry_op_queue) :
        NA_SM_OP_CANCELED \in op[retry_op_queue[k]].status =>
            canc.pc = "lock" /\ canc.op = retry_op_queue[k]

\* The drain has released the buffer it reserved for a canceled head and is
\* back at the top of its loop, the cancel call being over.
C36_Witness ==
    /\ prog.pc = "retries"
    /\ retry_op_queue # <<>>
    /\ NA_SM_OP_CANCELED \in op[Head(retry_op_queue)].status
    /\ canc.pc = "idle"
    /\ thr.pc = "idle"
    /\ fault = "none"

InitCancel == CancelInit /\ BufParked /\ QPParked

NextCancel ==
    \/ \E o \in Ops : na_sm_msg_send_reset(o, "lk", "NA_CB_SEND_UNEXPECTED")
    \/ na_sm_msg_send_rest
    \/ UNCHANGED smallVars /\ \E o \in Ops : na_sm_cancel_call(o)
    \/ UNCHANGED smallVars /\ na_sm_cancel_remove
    \/ UNCHANGED smallVars /\ na_sm_cancel_complete
    \/ UNCHANGED smallVars /\ NA_Trigger
    \/ UNCHANGED smallVars /\ PeerRecv("peer", "tx_queue")
    \/ UNCHANGED smallVars /\ PeerProgressCmd
    \/ UNCHANGED smallVars /\ na_sm_progress_call
    \/ UNCHANGED smallVars /\ na_sm_progress_rx_queue
    \/ UNCHANGED smallVars /\ na_sm_progress_cmd_queue
    \/ UNCHANGED smallVars /\ na_sm_process_retries_head
    \/ UNCHANGED smallVars /\ na_sm_process_retries_reserve
    \/ UNCHANGED smallVars /\ na_sm_process_retries_check
    \/ UNCHANGED smallVars /\ na_sm_process_retries_post

\* The threads inside na_sm_progress, na_sm_cancel and the send keep
\* running; nothing is assumed about new calls or about the peer.
SpecCancel ==
    /\ InitCancel
    /\ [][NextCancel]_vars
    /\ WF_vars(ProgressSteps)
    /\ WF_vars(CancelSteps)
    /\ WF_vars(na_sm_msg_send_rest)

(***************************************************************************)
(* SpecCmd: SpecSend with the progress mode of the two endpoints.  thr =   *)
(* [poll_set, sock]: poll_set tells whether the endpoints were opened with *)
(* a poll set (blocking progress), sock is the number of datagrams of      *)
(* other clients waiting on the listening peer's socket.                   *)
(***************************************************************************)

CmdInit ==
    /\ SendInit
    /\ thr \in [poll_set : BOOLEAN, sock : 0..MaxQueued]

\* The peer's na_sm_progress without a poll set: na_sm_poll, which ends with
\* na_sm_progress_cmd_queue on the own region's command queue.
na_sm_poll_peer ==
    /\ ~thr.poll_set
    /\ PeerProgressCmd
    /\ UNCHANGED <<bufVars, qpVars>>

\* The peer's na_sm_progress with a poll set: na_sm_poll_wait handles the
\* event hg_poll_wait reports; for NA_SM_POLL_SOCK na_sm_progress_sock takes
\* one datagram off the socket.  The command queue is not looked at.
na_sm_poll_wait_peer ==
    /\ fault = "none"
    /\ thr.poll_set
    /\ thr.sock > 0
    /\ thr' = [thr EXCEPT !.sock = @ - 1]
    /\ UNCHANGED <<bufVars, qpVars, epVars>>

\* The send of op o is parked because na_sm_addr_resolve returned NA_AGAIN:
\* the op is on the retry queue and its address is not resolved.
ParkedForResolve(o) ==
    /\ Linked(retry_op_queue, o)
    /\ NA_SM_ADDR_RESOLVED \notin addr[op[o].na_sm_addr].status

\* Every copy buffer of the peer's region is held by another process.
NoBufferEver ==
    /\ region["peer"].copy_reserved = AllBufs
    /\ region["peer"].tx_queue = <<>>

\* C37: a send parked because address resolution returned NA_AGAIN is
\* eventually posted and completed, in blocking and in non-blocking mode,
\* when the sender and the peer keep calling progress (and a copy buffer
\* can be had).
C37_ParkedIsPosted ==
    \A o \in Ops :
        ParkedForResolve(o) ~>
            (NA_SM_OP_COMPLETED \in op[o].status \/ NoBufferEver
                \/ fault # "none")

\* C37, without a poll set: the parked send is posted and completed.
C37_ParkedIsPostedNoWait ==
    \A o \in Ops :
        (ParkedForResolve(o) /\ ~thr.poll_set) ~>
            (NA_SM_OP_COMPLETED \in op[o].status \/ NoBufferEver
                \/ fault # "none")

\* With a poll set a command stays on the peer's command queue for good.
C37_CmdQueueKept ==
    [][thr.poll_set =>
          region'["peer"].cmd_queue = region["peer"].cmd_queue]_vars

\* A send is parked for the full command queue, with a poll set, and the
\* peer has taken every datagram off its socket.
C37_Witness ==
    /\ thr.poll_set
    /\ thr.sock = 0
    /\ \E o \in Ops : ParkedForResolve(o)
    /\ CmdQueueFull(region["peer"].cmd_queue)
    /\ ~NoBufferEver
    /\ prog.pc = "idle"
    /\ fault = "none"

\* The same without a poll set: the parked send has been completed.
C37_WitnessNoWait ==
    /\ ~thr.poll_set
    /\ \E o \in Ops : op[o].parked /\ NA_SM_OP_COMPLETED \in op[o].status
    /\ ~CmdQueueFull(region["peer"].cmd_queue)
    /\ region["peer"].cmd_queue # <<>>
    /\ fault = "none"

InitCmd == CmdInit /\ BufParked /\ QPParked

NextCmd ==
    \/ UNCHANGED smallVars /\ \E o \in Ops :
           na_sm_msg_send(o, "lk", "NA_CB_SEND_UNEXPECTED")
    \/ UNCHANGED smallVars /\ NA_Trigger
    \/ UNCHANGED smallVars /\ PeerRecv("peer", "tx_queue")
    \/ na_sm_poll_peer
    \/ na_sm_poll_wait_peer
    \/ UNCHANGED smallVars /\ na_sm_progress_call
    \/ UNCHANGED smallVars /\ na_sm_progress_rx_queue
    \/ UNCHANGED smallVars /\ na_sm_progress_cmd_queue
    \/ UNCHANGED smallVars /\ na_sm_process_retries_head
    \/ UNCHANGED smallVars /\ na_sm_process_retries_reserve
    \/ UNCHANGED smallVars /\ na_sm_process_retries_check
    \/ UNCHANGED smallVars /\ na_sm_process_retries_post

\* The sender and the peer keep calling progress.
SpecCmd ==
    /\ InitCmd
    /\ [][NextCmd]_vars
    /\ WF_vars(UNCHANGED smallVars /\ na_sm_progress_call)
    /\ WF_vars(ProgressSteps)
    /\ WF_vars(UNCHANGED smallVars /\ PeerRecv("peer", "tx_queue"))
    /\ WF_vars(na_sm_poll_peer)
    /\ WF_vars(na_sm_poll_wait_peer)

(***************************************************************************)
(* SpecSelf: a listening endpoint without a poll set that sends to its own *)
(* address.  thr = [pc, ret, addr, pair_reserved, mapped, cmd_queue,       *)
(* poll_addr_list, handles, posts, peers, sent, released, unmaps, freed,   *)
(* fault]: addr holds the endpoint's source address and the unexpected     *)
(* address its own NA_SM_RESERVED command creates; sent lists the pair     *)
(* index of every message sent to the own address, released the pair       *)
(* indexes given back, unmaps counts na_sm_region_close on the own region  *)
(* and freed the calls of free() per address.                              *)
(***************************************************************************)

MaxPeers == 2

SelfAddrIds == {"source_addr", "ux"}

\* The own region's command queue when the run starts: empty, or full of
\* the commands of other clients not processed yet.
SelfInitCmds ==
    {<<>>, [k \in 1..((NA_SM_MAX_PEERS * 2) - 1) |-> OtherCmd]}

\* na_sm_endpoint_open with listen and no_wait: the own region is created,
\* a queue pair is reserved for loopback (the first of the new region), the
\* source address is created with that pair and the region; its status
\* is 0.
na_sm_endpoint_open_listen(cmds) ==
    LET queue_pair_idx == LowestFree({}, NA_SM_MAX_PEERS)
    IN  [pc |-> "open", ret |-> "NONE",
         addr |-> [a \in SelfAddrIds |->
                      IF a = "source_addr"
                      THEN [state |-> "live", unexpected |-> FALSE,
                            ref_count |-> 1, status |-> {},
                            shared_region |-> "own",
                            queue_pair_idx |-> queue_pair_idx]
                      ELSE [state |-> "none", unexpected |-> TRUE,
                            ref_count |-> 0, status |-> {},
                            shared_region |-> NULL, queue_pair_idx |-> 0]],
         pair_reserved |-> {queue_pair_idx}, mapped |-> TRUE,
         cmd_queue |-> cmds, poll_addr_list |-> <<>>, handles |-> 0,
         posts |-> 0, peers |-> 0, sent |-> <<>>, released |-> <<>>,
         unmaps |-> 0, freed |-> [a \in SelfAddrIds |-> 0],
         fault |-> "none"]

\* The pair reserved for loopback at endpoint open.
LoopbackIdx == 0

SelfInit == \E cmds \in SelfInitCmds : thr = na_sm_endpoint_open_listen(cmds)

SelfRunning == thr.pc = "open" /\ thr.ret = "NONE" /\ thr.fault = "none"

\* na_sm_addr_self: one more reference on the source address.
na_sm_addr_self ==
    /\ SelfRunning
    /\ thr.handles < MaxHandles
    /\ thr' = [thr EXCEPT !.addr["source_addr"].ref_count = @ + 1,
                          !.handles = @ + 1]

\* na_sm_addr_free on a handle of the source address: the endpoint keeps its
\* own reference, so the count does not reach zero.
na_sm_addr_free_self ==
    /\ SelfRunning
    /\ thr.handles > 0
    /\ thr' = [thr EXCEPT !.addr["source_addr"].ref_count = @ - 1,
                          !.handles = @ - 1]

\* Another process resolves its address for this endpoint: it reserves a
\* pair of the own region and pushes its NA_SM_RESERVED command.
PeerReserve ==
    /\ SelfRunning
    /\ thr.mapped
    /\ thr.peers < MaxPeers
    /\ ~CmdQueueFull(thr.cmd_queue)
    /\ thr' = [thr EXCEPT
           !.pair_reserved =
               @ \cup {LowestFree(thr.pair_reserved, NA_SM_MAX_PEERS)},
           !.cmd_queue = Append(@, OtherCmd),
           !.peers = @ + 1]

\* na_sm_addr_resolve on the source address: the region is opened if the
\* address has none; without RESERVED a queue pair is reserved and becomes
\* the address's pair; the NA_SM_RESERVED command is pushed onto the (own)
\* command queue; the address is marked resolved and put at the head of the
\* poll list.  On a full command queue (error path): the pair is released,
\* RESERVED cleared, the region closed and shared_region set to NULL, and
\* NA_AGAIN is returned.
na_sm_addr_resolve_self(S) ==
    LET A == S.addr["source_addr"]
        S0 == IF A.shared_region = NULL
              THEN [S EXCEPT !.addr["source_addr"].shared_region = "own",
                             !.mapped = TRUE]
              ELSE S
        idx == IF NA_SM_ADDR_RESERVED \notin A.status
               THEN LowestFree(S0.pair_reserved, NA_SM_MAX_PEERS)
               ELSE A.queue_pair_idx
        S1 == [S0 EXCEPT
                  !.pair_reserved = @ \cup {idx},
                  !.addr["source_addr"].queue_pair_idx = idx,
                  !.addr["source_addr"].status = @ \cup {NA_SM_ADDR_RESERVED}]
    IN  IF NA_SM_ADDR_CMD_PUSHED \notin A.status
           /\ CmdQueueFull(S1.cmd_queue)
        THEN [S1 EXCEPT
                 !.pair_reserved = @ \ {idx},
                 !.released = Append(@, idx),
                 !.addr["source_addr"].status = @ \ {NA_SM_ADDR_RESERVED},
                 !.addr["source_addr"].shared_region = NULL,
                 !.unmaps = @ + 1,
                 !.mapped = FALSE,
                 !.ret = "NA_AGAIN"]
        ELSE [S1 EXCEPT
                 !.cmd_queue =
                     IF NA_SM_ADDR_CMD_PUSHED \notin A.status
                     THEN Append(@, CmdHdr("NA_SM_RESERVED", idx))
                     ELSE @,
                 !.addr["source_addr"].status =
                     @ \cup {NA_SM_ADDR_CMD_PUSHED, NA_SM_ADDR_RESOLVED},
                 !.poll_addr_list = <<"source_addr">> \o @]

\* na_sm_msg_send_unexpected to the own address, or the retry of a parked
\* one: resolve the address if RESOLVED is not set (NA_AGAIN: the op is
\* parked and the call returns success), then push the header on the tx
\* queue of the address's pair.
na_sm_msg_send_self ==
    /\ SelfRunning
    /\ thr.handles > 0
    /\ thr.posts < MaxPosts
    /\ LET A == thr.addr["source_addr"]
           S1 == IF NA_SM_ADDR_RESOLVED \notin A.status
                 THEN na_sm_addr_resolve_self(thr)
                 ELSE thr
       IN  thr' = IF S1.ret = "NA_AGAIN"
                  THEN [S1 EXCEPT !.ret = "NONE", !.posts = @ + 1]
                  ELSE [S1 EXCEPT
                           !.sent = Append(@, S1.addr["source_addr"]
                                                  .queue_pair_idx),
                           !.posts = @ + 1]

\* na_sm_poll on the endpoint itself: if the source address has a region,
\* one command is popped from its command queue; a NA_SM_RESERVED command
\* with the own pid creates an unexpected address with the command's pair
\* at the head of the poll list (the addresses of other clients are left
\* out).
na_sm_progress_cmd_queue_self ==
    /\ SelfRunning
    /\ thr.addr["source_addr"].shared_region # NULL
    /\ thr.cmd_queue # <<>>
    /\ LET cmd == Head(thr.cmd_queue)
       IN  thr' = IF cmd.pid = "self" /\ cmd.type = "NA_SM_RESERVED"
                  THEN [thr EXCEPT
                           !.cmd_queue = Tail(@),
                           !.addr["ux"] =
                               [state |-> "live", unexpected |-> TRUE,
                                ref_count |-> 1,
                                status |-> {NA_SM_ADDR_RESOLVED},
                                shared_region |-> "own",
                                queue_pair_idx |-> cmd.pair_idx],
                           !.poll_addr_list = <<"ux">> \o @]
                  ELSE [thr EXCEPT !.cmd_queue = Tail(@)]

\* na_sm_addr_release: an unexpected address gives its queue pair back; any
\* other pushes NA_SM_RELEASED onto the command queue of its region
\* (NA_AGAIN if full) and closes the region.  A region that is no longer
\* mapped is written to all the same.
na_sm_addr_release_self(S, a) ==
    LET A == S.addr[a]
        S0 == IF S.mapped THEN S ELSE [S EXCEPT !.fault = "use_after_unmap"]
    IN  IF A.unexpected
        THEN [S0 EXCEPT !.pair_reserved = @ \ {A.queue_pair_idx},
                        !.released = Append(@, A.queue_pair_idx)]
        ELSE IF CmdQueueFull(S.cmd_queue)
        THEN [S0 EXCEPT !.ret = "NA_AGAIN"]
        ELSE [S0 EXCEPT
                 !.cmd_queue =
                     Append(@, CmdHdr("NA_SM_RELEASED", A.queue_pair_idx)),
                 !.unmaps = @ + 1,
                 !.mapped = FALSE]

\* na_sm_addr_destroy: na_sm_addr_release if the address has a region, then
\* free().
na_sm_addr_destroy_self(S, a) ==
    LET S1 == IF S.addr[a].shared_region # NULL
              THEN na_sm_addr_release_self(S, a)
              ELSE S
    IN  IF S1.ret # "NONE" THEN S1
        ELSE [S1 EXCEPT !.addr[a].state = "freed", !.freed[a] = @ + 1]

RECURSIVE DestroyAllSelf(_, _)
\* The loop of na_sm_endpoint_close over the poll list; it ends at the first
\* error.
DestroyAllSelf(S, list) ==
    IF list = <<>> THEN S
    ELSE LET S1 == na_sm_addr_destroy_self(
                       [S EXCEPT !.poll_addr_list = ListRemove(@, Head(list))],
                       Head(list))
         IN  IF S1.ret # "NONE" THEN S1
             ELSE DestroyAllSelf(S1, Tail(list))

\* na_sm_endpoint_close with empty queues: the addresses of the poll list
\* are destroyed; then, through the source_addr pointer read at the top of
\* the function: if the address has a region, its pair is released and the
\* region closed, and the address is freed.  If the loop has freed the
\* source address, the pointer dangles: what is read through it is either
\* what the address held (stale) or not, and the address is freed a second
\* time.
na_sm_endpoint_close_self(stale) ==
    /\ SelfRunning
    /\ LET S1 == DestroyAllSelf(thr, thr.poll_addr_list)
           A == S1.addr["source_addr"]
       IN  thr' =
               IF S1.ret # "NONE" THEN [S1 EXCEPT !.pc = "closed"]
               ELSE IF A.state = "freed"
               THEN [S1 EXCEPT
                        !.pc = "closed", !.ret = "NA_SUCCESS",
                        !.fault = "use_after_free",
                        !.released = IF stale
                                     THEN Append(@, A.queue_pair_idx) ELSE @,
                        !.unmaps = IF stale THEN @ + 1 ELSE @,
                        !.freed["source_addr"] = @ + 1]
               ELSE [S1 EXCEPT
                        !.pc = "closed", !.ret = "NA_SUCCESS",
                        !.pair_reserved =
                            IF A.shared_region # NULL
                            THEN @ \ {A.queue_pair_idx} ELSE @,
                        !.released =
                            IF A.shared_region # NULL
                            THEN Append(@, A.queue_pair_idx) ELSE @,
                        !.unmaps = IF A.shared_region # NULL
                                   THEN @ + 1 ELSE @,
                        !.mapped = IF A.shared_region # NULL
                                   THEN FALSE ELSE @,
                        !.addr["source_addr"].state = "freed",
                        !.freed["source_addr"] = @ + 1]

\* How many times x occurs in the sequence s.
Count(s, x) == Cardinality({k \in 1..Len(s) : s[k] = x})

\* The endpoint has been closed with NA_SUCCESS: the loopback pair has been
\* released once, the own region unmapped once, the source address freed
\* once.
ClosedOnce ==
    (thr.pc = "closed" /\ thr.ret = "NA_SUCCESS") =>
        /\ Count(thr.released, LoopbackIdx) = 1
        /\ thr.unmaps = 1
        /\ thr.freed["source_addr"] = 1
        /\ thr.fault = "none"

\* C39: on a listening endpoint a send to the own address goes over the
\* loopback pair reserved at endpoint open: it reserves no further pair and
\* leaves the source address's pair index as it was; at endpoint close the
\* loopback pair is released once, the own region unmapped once and the
\* source address freed once.
C39_LoopbackOnly ==
    /\ \A k \in 1..Len(thr.sent) : thr.sent[k] = LoopbackIdx
    /\ thr.addr["source_addr"].state = "live" =>
           thr.addr["source_addr"].queue_pair_idx = LoopbackIdx
    /\ thr.pc = "open" => Cardinality(thr.pair_reserved) = 1 + thr.peers
    /\ ClosedOnce

\* C39, an endpoint that never sent to itself: close releases the loopback
\* pair, unmaps the region and frees the source address, once each.
C39_ClosedOnceWithoutSelfSend ==
    thr.posts = 0 =>
        /\ ClosedOnce
        /\ thr.addr["source_addr"].state = "live" =>
               thr.addr["source_addr"].queue_pair_idx = LoopbackIdx

\* The endpoint has sent to its own address, processed its own command and
\* has been closed.
C39_Witness ==
    /\ thr.pc = "closed"
    /\ thr.ret = "NA_SUCCESS"
    /\ thr.sent # <<>>
    /\ thr.addr["ux"].state = "freed"
    /\ thr.freed["source_addr"] = 2

\* An endpoint that never sent to itself has been closed.
C39_WitnessNoSelfSend ==
    /\ thr.pc = "closed"
    /\ thr.ret = "NA_SUCCESS"
    /\ thr.posts = 0
    /\ thr.peers > 0

InitSelf == SelfInit /\ BufParked /\ QPParked /\ EpParked

NextSelf ==
    \/ UNCHANGED <<bufVars, qpVars, epVars>> /\ na_sm_addr_self
    \/ UNCHANGED <<bufVars, qpVars, epVars>> /\ na_sm_addr_free_self
    \/ UNCHANGED <<bufVars, qpVars, epVars>> /\ PeerReserve
    \/ UNCHANGED <<bufVars, qpVars, epVars>> /\ na_sm_msg_send_self
    \/ UNCHANGED <<bufVars, qpVars, epVars>> /\ na_sm_progress_cmd_queue_self
    \/ UNCHANGED <<bufVars, qpVars, epVars>> /\ \E stale \in BOOLEAN :
           na_sm_endpoint_close_self(stale)

SpecSelf == InitSelf /\ [][NextSelf]_vars

(***************************************************************************)
(* SpecPair: the queue pairs of a listening endpoint's region and the      *)
(* addresses on both sides that reference them.  thr = [poll_set,          *)
(* listener, pair_reserved, cmd_queue, sock, addr, poll_addr_list]:        *)
(* poll_set tells for the clients and for the listener whether the         *)
(* endpoints have a poll set; pair_reserved, cmd_queue and sock are the    *)
(* listener's region and socket; addr[c] is the address client c looked up *)
(* for the listener (initiator side); poll_addr_list is the listener's     *)
(* list of unexpected addresses [pid, queue_pair_idx, ref_count].          *)
(***************************************************************************)

NumClients == 2

Clients == 1..NumClients

\* What happens after the command push of a resolution with a poll set: ok,
\* na_sm_event_create fails, na_sm_addr_event_send fails, or it returns
\* NA_AGAIN (ETOOMANYREFS).
ResolveOutcomes == {"ok", "event", "send", "again"}

PairInit ==
    \E client \in BOOLEAN, listener \in BOOLEAN :
        thr = [poll_set |-> [client |-> client, listener |-> listener],
               listener |-> "open",
               pair_reserved |-> {LoopbackIdx},
               cmd_queue |-> <<>>,
               sock |-> <<>>,
               addr |-> [c \in Clients |->
                            [state |-> "none", status |-> {},
                             queue_pair_idx |-> 0, shared_region |-> NULL]],
               poll_addr_list |-> <<>>]

\* na_sm_addr_lookup by client c: the address is created, status 0.
na_sm_addr_lookup_client(c) ==
    /\ thr.addr[c].state = "none"
    /\ thr' = [thr EXCEPT !.addr[c].state = "live"]

\* The error path of na_sm_addr_resolve: with RESERVED set the pair is
\* released and RESERVED cleared (CMD_PUSHED stays); the region is closed
\* and shared_region set to NULL.
na_sm_addr_resolve_error(S, c) ==
    LET A == S.addr[c]
    IN  [S EXCEPT
            !.pair_reserved = IF NA_SM_ADDR_RESERVED \in A.status
                              THEN @ \ {A.queue_pair_idx} ELSE @,
            !.addr[c].status = @ \ {NA_SM_ADDR_RESERVED},
            !.addr[c].shared_region = NULL]

\* na_sm_addr_resolve by client c: open the region; reserve a pair unless
\* RESERVED is set; push NA_SM_RESERVED unless CMD_PUSHED is set (full
\* queue: error path); with a poll set create the events and send the
\* command and the descriptors to the listener's socket (failure: error
\* path; NA_AGAIN: return as is); set RESOLVED.
na_sm_addr_resolve_client(c, out) ==
    /\ thr.listener = "open"
    /\ thr.addr[c].state = "live"
    /\ NA_SM_ADDR_RESOLVED \notin thr.addr[c].status
    /\ ~thr.poll_set.client => out = "ok"
    /\ (thr.poll_set.client /\ ~thr.poll_set.listener) => out = "send"
    /\ LET A == thr.addr[c]
           idx == IF NA_SM_ADDR_RESERVED \notin A.status
                  THEN LowestFree(thr.pair_reserved, NA_SM_MAX_PEERS)
                  ELSE A.queue_pair_idx
           S1 == [thr EXCEPT
                     !.addr[c].shared_region = "peer",
                     !.pair_reserved = @ \cup {idx},
                     !.addr[c].queue_pair_idx = idx,
                     !.addr[c].status = @ \cup {NA_SM_ADDR_RESERVED}]
           cmd_hdr == [type |-> "NA_SM_RESERVED", pid |-> c, pair_idx |-> idx]
           push == NA_SM_ADDR_CMD_PUSHED \notin A.status
           S2 == [S1 EXCEPT
                     !.cmd_queue = IF push THEN Append(@, cmd_hdr) ELSE @,
                     !.addr[c].status = @ \cup {NA_SM_ADDR_CMD_PUSHED}]
       IN  thr' = IF push /\ CmdQueueFull(S1.cmd_queue)
                  THEN na_sm_addr_resolve_error(S1, c)
                  ELSE IF out \in {"event", "send"}
                  THEN na_sm_addr_resolve_error(S2, c)
                  ELSE IF out = "again"
                  THEN S2
                  ELSE [S2 EXCEPT
                           !.sock = IF thr.poll_set.client
                                    THEN Append(@, cmd_hdr) ELSE @,
                           !.addr[c].status = @ \cup {NA_SM_ADDR_RESOLVED}]

\* na_sm_addr_free by client c, last reference: na_sm_addr_destroy.  With a
\* region, na_sm_addr_release tells the listener: NA_SM_RELEASED goes to
\* its socket with a poll set (errors ignored) or onto its command queue
\* without (full queue: NA_AGAIN, the address is not freed); the region is
\* closed.  The pair's bit is left to the listener.
na_sm_addr_free_client(c) ==
    /\ thr.addr[c].state = "live"
    /\ LET A == thr.addr[c]
           cmd_hdr == [type |-> "NA_SM_RELEASED", pid |-> c,
                       pair_idx |-> A.queue_pair_idx]
       IN  thr' = IF A.shared_region = NULL
                  THEN [thr EXCEPT !.addr[c].state = "freed"]
                  ELSE IF thr.poll_set.client
                  THEN [thr EXCEPT
                           !.sock = IF thr.poll_set.listener
                                       /\ thr.listener = "open"
                                    THEN Append(@, cmd_hdr) ELSE @,
                           !.addr[c].state = "freed"]
                  ELSE IF CmdQueueFull(thr.cmd_queue)
                  THEN thr
                  ELSE [thr EXCEPT !.cmd_queue = Append(@, cmd_hdr),
                                   !.addr[c].state = "freed"]

\* The position in the listener's poll list of the first address a
\* NA_SM_RELEASED command matches (pair index and pid), 0 if none.
ReleasedMatchIdx(list, cmd) ==
    LET hits == {k \in 1..Len(list) :
                    /\ list[k].queue_pair_idx = cmd.pair_idx
                    /\ list[k].pid = cmd.pid}
    IN  IF hits = {} THEN 0
        ELSE CHOOSE k \in hits : \A j \in hits : k <= j

\* The sequence s without its k-th element.
RemoveAt(s, k) == [i \in 1..(Len(s) - 1) |-> IF i < k THEN s[i] ELSE s[i + 1]]

\* na_sm_process_cmd on the listener.  NA_SM_RESERVED: an unexpected address
\* with the command's pid and pair is put at the head of the poll list.
\* NA_SM_RELEASED: the first matching address loses a reference; at zero it
\* is taken off the list and destroyed, which releases its pair.
na_sm_process_cmd_listener(S, cmd) ==
    IF cmd.type = "NA_SM_RESERVED"
    THEN [S EXCEPT !.poll_addr_list =
             <<[pid |-> cmd.pid, queue_pair_idx |-> cmd.pair_idx,
                ref_count |-> 1]>> \o @]
    ELSE LET k == ReleasedMatchIdx(S.poll_addr_list, cmd)
         IN  IF k = 0 THEN S
             ELSE IF S.poll_addr_list[k].ref_count > 1
             THEN [S EXCEPT !.poll_addr_list[k].ref_count = @ - 1]
             ELSE [S EXCEPT
                      !.poll_addr_list = RemoveAt(@, k),
                      !.pair_reserved =
                          @ \ {S.poll_addr_list[k].queue_pair_idx}]

\* The listener's na_sm_progress without a poll set: na_sm_poll pops one
\* command from the command queue.
na_sm_poll_listener ==
    /\ thr.listener = "open"
    /\ ~thr.poll_set.listener
    /\ thr.cmd_queue # <<>>
    /\ thr' = na_sm_process_cmd_listener(
                  [thr EXCEPT !.cmd_queue = Tail(@)], Head(thr.cmd_queue))

\* The listener's na_sm_progress with a poll set: na_sm_poll_wait takes one
\* datagram off the socket (na_sm_progress_sock).
na_sm_poll_wait_listener ==
    /\ thr.listener = "open"
    /\ thr.poll_set.listener
    /\ thr.sock # <<>>
    /\ thr' = na_sm_process_cmd_listener(
                  [thr EXCEPT !.sock = Tail(@)], Head(thr.sock))

\* na_sm_endpoint_close on the listener: every unexpected address left on
\* the poll list is destroyed, which releases its pair; then the loopback
\* pair is released and the region closed and removed.
na_sm_endpoint_close_listener ==
    /\ thr.listener = "open"
    /\ thr' = [thr EXCEPT
           !.listener = "closed",
           !.poll_addr_list = <<>>,
           !.pair_reserved =
               (@ \ {thr.poll_addr_list[k].queue_pair_idx :
                        k \in 1..Len(thr.poll_addr_list)}) \ {LoopbackIdx}]

\* Client c's address references a pair of the listener's region.
Initiator(c) ==
    /\ thr.addr[c].state = "live"
    /\ NA_SM_ADDR_RESERVED \in thr.addr[c].status

\* No address references an available pair and no pair is referenced by two
\* initiator-side or by two unexpected addresses.
PairsConsistent ==
    /\ \A c \in Clients :
           Initiator(c) => thr.addr[c].queue_pair_idx \in thr.pair_reserved
    /\ \A k \in 1..Len(thr.poll_addr_list) :
           thr.poll_addr_list[k].queue_pair_idx \in thr.pair_reserved
    /\ \A c, d \in Clients :
           (c # d /\ Initiator(c) /\ Initiator(d)) =>
               thr.addr[c].queue_pair_idx # thr.addr[d].queue_pair_idx
    /\ \A j, k \in 1..Len(thr.poll_addr_list) :
           j # k => thr.poll_addr_list[j].queue_pair_idx
                        # thr.poll_addr_list[k].queue_pair_idx

\* C40: at every reachable state no address on either side references a
\* queue pair whose bit is set (available) in the region's bitmask, and each
\* reserved pair is referenced by at most one initiator-side and at most one
\* unexpected address, also after a resolution that failed after its command
\* push and after the listener tore down an unexpected address.
C40_PairsConsistent == PairsConsistent

\* C40 while the listener is open and both sides have the same progress
\* mode.
C40_PairsConsistentSameMode ==
    (thr.listener = "open" /\ thr.poll_set.client = thr.poll_set.listener)
        => PairsConsistent

\* C40 while the listener is open, the clients with and the listener
\* without a poll set.
C40_PairsConsistentOpen ==
    thr.listener = "open" => PairsConsistent

\* A resolution has failed after its command push and the listener has made
\* an unexpected address from the command.
C40_Witness ==
    /\ thr.listener = "open"
    /\ \E c \in Clients :
           /\ thr.addr[c].state = "live"
           /\ thr.addr[c].status = {NA_SM_ADDR_CMD_PUSHED}
           /\ \E k \in 1..Len(thr.poll_addr_list) :
                  /\ thr.poll_addr_list[k].pid = c
                  /\ thr.poll_addr_list[k].queue_pair_idx
                         \notin thr.pair_reserved

InitPair == PairInit /\ BufParked /\ QPParked /\ EpParked

NextPair ==
    \/ UNCHANGED <<bufVars, qpVars, epVars>> /\ \E c \in Clients :
           na_sm_addr_lookup_client(c)
    \/ UNCHANGED <<bufVars, qpVars, epVars>> /\
           \E c \in Clients, out \in ResolveOutcomes :
               na_sm_addr_resolve_client(c, out)
    \/ UNCHANGED <<bufVars, qpVars, epVars>> /\ \E c \in Clients :
           na_sm_addr_free_client(c)
    \/ UNCHANGED <<bufVars, qpVars, epVars>> /\ na_sm_poll_listener
    \/ UNCHANGED <<bufVars, qpVars, epVars>> /\ na_sm_poll_wait_listener
    \/ UNCHANGED <<bufVars, qpVars, epVars>> /\ na_sm_endpoint_close_listener

SpecPair == InitPair /\ [][NextPair]_vars

InitSend == SendInit /\ BufParked /\ QPParked /\ ThrParked

NextSend ==
    \/ UNCHANGED smallVars /\ \E o \in Ops :
           na_sm_msg_send(o, "lk", "NA_CB_SEND_UNEXPECTED")
    \/ UNCHANGED smallVars /\ NA_Trigger
    \/ UNCHANGED smallVars /\ PeerRecv("peer", "tx_queue")
    \/ UNCHANGED smallVars /\ PeerProgressCmd
    \/ UNCHANGED smallVars /\ PeerExit
    \/ UNCHANGED smallVars /\ na_sm_progress_call
    \/ UNCHANGED smallVars /\ na_sm_progress_rx_queue
    \/ UNCHANGED smallVars /\ na_sm_progress_cmd_queue
    \/ UNCHANGED smallVars /\ na_sm_process_retries_head
    \/ UNCHANGED smallVars /\ na_sm_process_retries_reserve
    \/ UNCHANGED smallVars /\ na_sm_process_retries_check
    \/ UNCHANGED smallVars /\ na_sm_process_retries_post

SpecSend == InitSend /\ [][NextSend]_vars

InitProg == ProgInit /\ BufParked /\ QPParked /\ EpParked

NextProg ==
    \/ UNCHANGED <<bufVars, qpVars, epVars>> /\ \E timeout \in 0..MaxTimeout :
           na_sm_progress_enter(timeout)
    \/ UNCHANGED <<bufVars, qpVars, epVars>> /\ \E bad \in BOOLEAN :
           na_sm_poll(bad)
    \/ UNCHANGED <<bufVars, qpVars, epVars>> /\ na_sm_process_retries
    \/ UNCHANGED <<bufVars, qpVars, epVars>> /\ \E elapsed \in 0..MaxElapsed :
           na_sm_progress_loop(elapsed)
    \/ UNCHANGED <<bufVars, qpVars, epVars>> /\ \E queue \in {"rx", "cmd", "retry"} :
           PeerPush(queue)

SpecProg == InitProg /\ [][NextProg]_vars

Init == EpInit /\ BufParked /\ QPParked /\ ThrParked

\* The step pops a NA_SM_RELEASED command from the own command queue and
\* processes it.
ReleasedProcessed ==
    /\ prog.pc = "cmd"
    /\ prog' # prog
    /\ region["own"].cmd_queue # <<>>
    /\ Head(region["own"].cmd_queue).type = "NA_SM_RELEASED"

\* C38: a RELEASED command only affects the unexpected address created by
\* the RESERVED command with the same pid and pair index: processing it
\* never changes (decrements, destroys) an address this endpoint looked up
\* itself, even one with the same pair index in the peer's region.
C38_ReleasedLeavesLookedUp ==
    [][ReleasedProcessed =>
          \A a \in AddrIds :
              (addr[a].state = "live" /\ ~addr[a].unexpected) =>
                  addr'[a] = addr[a]]_vars

\* C38: what a RELEASED command does affect: at most the first address of
\* the poll list with the command's pid and pair index.
C38_ReleasedHitsFirstMatch ==
    [][ReleasedProcessed =>
          \A a \in AddrIds :
              a # ReleasedMatch(poll_addr_list, Head(region["own"].cmd_queue))
                  => addr'[a] = addr[a]]_vars

\* A RELEASED command of the peer is at the head of the command queue while
\* the poll list holds the unexpected address of the peer and, before it, the
\* address looked up for the peer, both with the command's pair index.
C38_Witness ==
    /\ prog.pc = "cmd"
    /\ region["own"].cmd_queue # <<>>
    /\ Head(region["own"].cmd_queue).type = "NA_SM_RELEASED"
    /\ poll_addr_list = <<"lk", "ux">>
    /\ addr["lk"].queue_pair_idx = addr["ux"].queue_pair_idx
    /\ addr["lk"].pid = addr["ux"].pid
    /\ Head(region["own"].cmd_queue).pair_idx = addr["ux"].queue_pair_idx
    /\ fault = "none"

Next ==
    \/ UNCHANGED smallVars /\ na_sm_addr_lookup
    \/ UNCHANGED smallVars /\ \E a \in AddrIds : na_sm_addr_free(a)
    \/ UNCHANGED smallVars /\ \E o \in Ops, a \in AddrIds :
           na_sm_msg_send(o, a, "NA_CB_SEND_UNEXPECTED")
    \/ UNCHANGED smallVars /\ \E o \in Ops, a \in AddrIds :
           na_sm_msg_send(o, a, "NA_CB_SEND_EXPECTED")
    \/ UNCHANGED smallVars /\ \E o \in Ops : na_sm_msg_recv_unexpected(o)
    \/ UNCHANGED smallVars /\ \E o \in Ops, a \in AddrIds :
           na_sm_msg_recv_expected(o, a)
    \/ UNCHANGED smallVars /\ NA_Trigger
    \/ UNCHANGED smallVars /\ PeerConnect
    \/ UNCHANGED smallVars /\ PeerSend("NA_CB_SEND_UNEXPECTED")
    \/ UNCHANGED smallVars /\ PeerSend("NA_CB_SEND_EXPECTED")
    \/ UNCHANGED smallVars /\ PeerRelease
    \/ UNCHANGED smallVars /\ PeerRecv("peer", "tx_queue")
    \/ UNCHANGED smallVars /\ PeerRecv("own", "rx_queue")
    \/ UNCHANGED smallVars /\ na_sm_progress_call
    \/ UNCHANGED smallVars /\ na_sm_progress_rx_queue
    \/ UNCHANGED smallVars /\ na_sm_process_unexpected
    \/ UNCHANGED smallVars /\ na_sm_process_expected
    \/ UNCHANGED smallVars /\ na_sm_progress_cmd_queue
    \/ UNCHANGED smallVars /\ na_sm_process_retries_head
    \/ UNCHANGED smallVars /\ na_sm_process_retries_reserve
    \/ UNCHANGED smallVars /\ na_sm_process_retries_check
    \/ UNCHANGED smallVars /\ na_sm_process_retries_post
    \/ UNCHANGED smallVars /\ \E o \in Ops : na_sm_cancel_call(o)
    \/ UNCHANGED smallVars /\ na_sm_cancel_remove
    \/ UNCHANGED smallVars /\ na_sm_cancel_complete
    \/ UNCHANGED smallVars /\ na_sm_endpoint_close

Spec == Init /\ [][Next]_vars

====
